---- MODULE Spec2Model ----
(***************************************************************************)
(* Hotel reservation ledger: three file-backed stores (customers, hotels,  *)
(* reservations) and the operations of source/customer.py, source/hotel.py *)
(* and source/reservation.py.                                              *)
(*                                                                         *)
(* A store is the content of its JSON file: a function from the keys that  *)
(* are present to the stored records.  Every operation loads the whole     *)
(* store, changes the loaded copy and saves it back; an operation that     *)
(* raises before its save leaves the file as it was.                       *)
(*                                                                         *)
(* Python argument values are modelled with their type, so that the        *)
(* isinstance / truthiness / "is not None" tests of the code are computed  *)
(* as the code computes them.                                              *)
(***************************************************************************)
EXTENDS Integers, FiniteSets, Sequences, TLC

(***************************************************************************)
(* Bounds of the model.                                                    *)
(***************************************************************************)
MaxRooms == 2

HotelNames == {"Plaza", "Tiny"}
Locations == {"CDMX"}
CustomerIds == {"C001"}
CustomerNames == {"Alice"}
Emails == {"alice@mail.com"}
ReservationIds == {"0a1b2c3d", "4e5f6a7b"}

\* the wider values of the specifications of one store
WideLocations == Locations \cup {"MTY"}
WideCustomerIds == CustomerIds \cup {"C002"}
WideCustomerNames == CustomerNames \cup {"Bob"}
WideEmails == Emails \cup {"bob@mail.com"}

\* customers, hotels, reservations: the content of customers.json, hotels.json
\* and reservations.json.
\* last: the latest call run in one step and the kind of its outcome, or the
\* call that was stopped; the outcome of a call run step by step is in procs.
\* protocolOnly: history of the run, kept for the statements about it: TRUE
\* as long as no call has changed a room counter or a hotel key outside the
\* reservation protocol (no successful direct reserve_room or cancel_room, no
\* successful delete_hotel, no rename, no reservation written under an id that
\* was already a key).
\* holdsKept: history of the run, kept for the statements about it: TRUE as
\* long as no call has lowered a room counter or taken away a hotel key
\* outside cancel_reservation (no successful direct cancel_room, no
\* successful delete_hotel, no rename).
\* damaged: for each of the three files, what it holds in place of the dump
\* of a mapping: "none", "text" (characters that are not a JSON document, as
\* "NOT VALID JSON {{{" written from outside the program, a dump followed by
\* the rest of a longer one that another process wrote, or the start of a
\* dump that a stopped save left), "bytes" (bytes that are not UTF-8, as
\* ff fe 00), "empty" (no bytes: a save has opened the file and its dump is
\* not yet written) or "unlinked" (the file was removed from the directory
\* while a save had it open).  The mapping that a file held is lost when it
\* is overwritten.
\* roundtrip: the latest serialization done outside the stores, as the tests
\* do it: self, the object that was serialized (NoObject when the mapping was
\* written by hand), data, the mapping, and back, the object that from_dict
\* made of it.
\* procs: the calls that are under way when calls are followed step by step,
\* a read or a write of a file at a time; for each process where it is in its
\* call and what it holds in memory.
VARIABLES customers, hotels, reservations, last, protocolOnly, holdsKept,
          damaged, roundtrip, procs

vars ==
    <<customers, hotels, reservations, last, protocolOnly, holdsKept,
      damaged, roundtrip, procs>>

(***************************************************************************)
(* Python values as arguments.                                             *)
(***************************************************************************)
Str(s) == [type |-> "str", val |-> s]
PyInt(n) == [type |-> "int", val |-> n]
\* True and False: bool is a subclass of int, True == 1 and False == 0
PyBool(n) == [type |-> "bool", val |-> n]
None == [type |-> "NoneType", val |-> "None"]

\* `not x`: the truth value of a Python argument
Falsy(x) ==
    \/ x.type = "NoneType"
    \/ x.type = "str" /\ x.val = ""
    \/ x.type \in {"int", "bool"} /\ x.val = 0

\* `not v or not isinstance(v, str)` is false
NonEmptyStr(x) == ~Falsy(x) /\ x.type = "str"

\* `not isinstance(v, int) or v <= 0` is false
PositiveInt(x) == x.type \in {"int", "bool"} /\ x.val > 0

\* `a != b` is false
PyEq(a, b) ==
    \/ a.type = b.type /\ a.val = b.val
    \/ a.type \in {"int", "bool"} /\ b.type \in {"int", "bool"}
       /\ a.val = b.val

\* `key in store` for a store loaded from JSON (its keys are strings)
In(key, store) == key.type = "str" /\ key.val \in DOMAIN store

\* d.get(k, default)
Get(d, k, default) == IF k \in DOMAIN d THEN d[k] ELSE default

\* store[k] = rec
Put(store, k, rec) ==
    [x \in DOMAIN store \cup {k} |-> IF x = k THEN rec ELSE store[x]]

\* del store[k]
Del(store, k) == [x \in DOMAIN store \ {k} |-> store[x]]

EmptyStore == [x \in {} |-> x]

(***************************************************************************)
(* Outcomes: "ok", or the ValueError raised, named by its message; Kind    *)
(* gives the failure kind of each message.                                 *)
(***************************************************************************)
OK == "ok"

Kind(err) ==
    CASE err = "ok" -> "ok"
      [] err \in {"Customer not found", "Hotel not found",
                  "Reservation not found"} -> "NotFound"
      [] err \in {"Customer already exists", "Hotel already exists"}
            -> "AlreadyExists"
      [] err = "No available rooms" -> "CapacityExceeded"
      [] err = "No reservations to cancel" -> "InvalidState"
      [] OTHER -> "InvalidInput"

(***************************************************************************)
(* The three files and their loaders.  A loader is given the mapping that  *)
(* the file holds and what has overwritten it.  A file that is absent and  *)
(* a file that holds the dump of a mapping are read alike (an absent file  *)
(* is the empty mapping); text that is not JSON raises JSONDecodeError in  *)
(* json.load, which the loader catches: it prints a warning and returns {};*)
(* bytes that are not UTF-8 raise UnicodeDecodeError in the read of        *)
(* json.load, which is not a JSONDecodeError and leaves the loader.        *)
(***************************************************************************)
Files == {"customers", "hotels", "reservations"}
DamageKinds == {"none", "text", "bytes"}
\* "empty" is the file of no bytes that open(..., "w") leaves until the dump
\* is written: json.load raises JSONDecodeError on it as on any other text
\* that is not JSON.  "unlinked" is the path with no file, the file having
\* been removed after a save opened it: os.path.exists is False and the
\* loader returns {} without a warning
FileKinds == DamageKinds \cup {"empty", "unlinked"}

load_customers(cs, dmg) ==
    IF dmg = "bytes"
    THEN [err |-> "UnicodeDecodeError", data |-> EmptyStore, warned |-> FALSE]
    ELSE IF dmg \in {"text", "empty"}
    THEN [err |-> OK, data |-> EmptyStore, warned |-> TRUE]
    ELSE IF dmg = "unlinked"
    THEN [err |-> OK, data |-> EmptyStore, warned |-> FALSE]
    ELSE [err |-> OK, data |-> cs, warned |-> FALSE]

load_hotels(hs, dmg) ==
    IF dmg = "bytes"
    THEN [err |-> "UnicodeDecodeError", data |-> EmptyStore, warned |-> FALSE]
    ELSE IF dmg \in {"text", "empty"}
    THEN [err |-> OK, data |-> EmptyStore, warned |-> TRUE]
    ELSE IF dmg = "unlinked"
    THEN [err |-> OK, data |-> EmptyStore, warned |-> FALSE]
    ELSE [err |-> OK, data |-> hs, warned |-> FALSE]

load_reservations(rs, dmg) ==
    IF dmg = "bytes"
    THEN [err |-> "UnicodeDecodeError", data |-> EmptyStore, warned |-> FALSE]
    ELSE IF dmg \in {"text", "empty"}
    THEN [err |-> OK, data |-> EmptyStore, warned |-> TRUE]
    ELSE IF dmg = "unlinked"
    THEN [err |-> OK, data |-> EmptyStore, warned |-> FALSE]
    ELSE [err |-> OK, data |-> rs, warned |-> FALSE]

(***************************************************************************)
(* customer.py                                                             *)
(***************************************************************************)
\* An object is the record of its attributes with its class; a mapping has
\* the keys alone.
NoObject == [class |-> "none"]

\* Customer.__init__
Customer(customer_id, name, email) ==
    [class |-> "Customer", customer_id |-> customer_id, name |-> name,
     email |-> email]

CustomerToDict(customer_id, name, email) ==
    [customer_id |-> customer_id, name |-> name, email |-> email]

\* Customer.to_dict
Customer_to_dict(self) ==
    CustomerToDict(self.customer_id, self.name, self.email)

\* Customer.from_dict
Customer_from_dict(data) ==
    Customer(data.customer_id, data.name, data.email)

\* create_customer without the test for an existing id
create_customer_Overwrite(cs, customer_id, name, email) ==
    IF ~NonEmptyStr(customer_id)
    THEN [err |-> "Customer ID must be a non-empty string", customers |-> cs]
    ELSE IF ~NonEmptyStr(name)
    THEN [err |-> "Name must be a non-empty string", customers |-> cs]
    ELSE IF ~NonEmptyStr(email)
    THEN [err |-> "Email must be a non-empty string", customers |-> cs]
    ELSE [err |-> OK,
          customers |-> Put(cs, customer_id.val,
                            CustomerToDict(customer_id.val, name.val,
                                           email.val))]

\* create_customer that takes any string for the email, the empty one too
create_customer_AnyEmail(cs, customer_id, name, email) ==
    IF ~NonEmptyStr(customer_id)
    THEN [err |-> "Customer ID must be a non-empty string", customers |-> cs]
    ELSE IF ~NonEmptyStr(name)
    THEN [err |-> "Name must be a non-empty string", customers |-> cs]
    ELSE IF email.type # "str"
    THEN [err |-> "Email must be a non-empty string", customers |-> cs]
    ELSE IF In(customer_id, cs)
    THEN [err |-> "Customer already exists", customers |-> cs]
    ELSE [err |-> OK,
          customers |-> Put(cs, customer_id.val,
                            CustomerToDict(customer_id.val, name.val,
                                           email.val))]

create_customer(cs, customer_id, name, email) ==
    IF ~NonEmptyStr(customer_id)
    THEN [err |-> "Customer ID must be a non-empty string", customers |-> cs]
    ELSE IF ~NonEmptyStr(name)
    THEN [err |-> "Name must be a non-empty string", customers |-> cs]
    ELSE IF ~NonEmptyStr(email)
    THEN [err |-> "Email must be a non-empty string", customers |-> cs]
    ELSE IF In(customer_id, cs)
    THEN [err |-> "Customer already exists", customers |-> cs]
    ELSE [err |-> OK,
          customers |-> Put(cs, customer_id.val,
                            CustomerToDict(customer_id.val, name.val,
                                           email.val))]

\* delete_customer that saves an empty mapping
delete_customer_ClearAll(cs, customer_id) ==
    IF ~In(customer_id, cs)
    THEN [err |-> "Customer not found", customers |-> cs]
    ELSE [err |-> OK, customers |-> EmptyStore]

delete_customer(cs, customer_id) ==
    IF ~In(customer_id, cs)
    THEN [err |-> "Customer not found", customers |-> cs]
    ELSE [err |-> OK, customers |-> Del(cs, customer_id.val)]

\* the returned text is modelled by the three values it renders
display_customer(cs, customer_id) ==
    IF ~In(customer_id, cs)
    THEN [err |-> "Customer not found", customers |-> cs, ret |-> <<>>]
    ELSE LET c == cs[customer_id.val]
         IN  [err |-> OK, customers |-> cs,
              ret |-> <<c.customer_id, c.name, c.email>>]

\* modify_customer that saves the record as far as it got when the email is
\* refused
modify_customer_SavePartial(cs, customer_id, new_name, new_email) ==
    IF ~In(customer_id, cs)
    THEN [err |-> "Customer not found", customers |-> cs]
    ELSE
      LET c0 == cs[customer_id.val]
          nameBad == new_name.type # "NoneType" /\ ~NonEmptyStr(new_name)
          c1 == IF new_name.type # "NoneType"
                THEN [c0 EXCEPT !.name = new_name.val] ELSE c0
          emailBad == new_email.type # "NoneType" /\ ~NonEmptyStr(new_email)
          c2 == IF new_email.type # "NoneType"
                THEN [c1 EXCEPT !.email = new_email.val] ELSE c1
      IN  IF nameBad
          THEN [err |-> "Name must be a non-empty string", customers |-> cs]
          ELSE IF emailBad
          THEN [err |-> "Email must be a non-empty string",
                customers |-> Put(cs, customer_id.val, c1)]
          ELSE [err |-> OK, customers |-> Put(cs, customer_id.val, c2)]

\* c is the loaded record: it is changed in memory field by field, and the
\* file is written only by the save that ends the call
modify_customer(cs, customer_id, new_name, new_email) ==
    IF ~In(customer_id, cs)
    THEN [err |-> "Customer not found", customers |-> cs]
    ELSE
      LET c0 == cs[customer_id.val]
          nameBad == new_name.type # "NoneType" /\ ~NonEmptyStr(new_name)
          c1 == IF new_name.type # "NoneType"
                THEN [c0 EXCEPT !.name = new_name.val] ELSE c0
          emailBad == new_email.type # "NoneType" /\ ~NonEmptyStr(new_email)
          c2 == IF new_email.type # "NoneType"
                THEN [c1 EXCEPT !.email = new_email.val] ELSE c1
      IN  IF nameBad
          THEN [err |-> "Name must be a non-empty string", customers |-> cs]
          ELSE IF emailBad
          THEN [err |-> "Email must be a non-empty string", customers |-> cs]
          ELSE [err |-> OK, customers |-> Put(cs, customer_id.val, c2)]

(***************************************************************************)
(* hotel.py                                                                *)
(***************************************************************************)
\* Hotel.__init__
Hotel(name, location, total_rooms) ==
    [class |-> "Hotel", name |-> name, location |-> location,
     total_rooms |-> total_rooms, reserved_rooms |-> 0]

HotelToDict(name, location, total_rooms, reserved_rooms) ==
    [name |-> name, location |-> location, total_rooms |-> total_rooms,
     reserved_rooms |-> reserved_rooms]

\* Hotel.to_dict
Hotel_to_dict(self) ==
    HotelToDict(self.name, self.location, self.total_rooms,
                self.reserved_rooms)

\* from_dict that leaves the reserved rooms of the constructor
Hotel_from_dict_NoReserved(data) ==
    Hotel(data.name, data.location, data.total_rooms)

\* Hotel.from_dict
Hotel_from_dict(data) ==
    [Hotel(data.name, data.location, data.total_rooms)
        EXCEPT !.reserved_rooms = Get(data, "reserved_rooms", 0)]

\* create_hotel without the test for an existing name
create_hotel_Overwrite(hs, name, location, total_rooms) ==
    IF ~NonEmptyStr(name)
    THEN [err |-> "Hotel name must be a non-empty string", hotels |-> hs]
    ELSE IF ~NonEmptyStr(location)
    THEN [err |-> "Location must be a non-empty string", hotels |-> hs]
    ELSE IF ~PositiveInt(total_rooms)
    THEN [err |-> "Total rooms must be a positive integer", hotels |-> hs]
    ELSE [err |-> OK,
          hotels |-> Put(hs, name.val,
                         HotelToDict(name.val, location.val,
                                     total_rooms, 0))]

\* Hotel.__init__ sets reserved_rooms to 0
create_hotel(hs, name, location, total_rooms) ==
    IF ~NonEmptyStr(name)
    THEN [err |-> "Hotel name must be a non-empty string", hotels |-> hs]
    ELSE IF ~NonEmptyStr(location)
    THEN [err |-> "Location must be a non-empty string", hotels |-> hs]
    ELSE IF ~PositiveInt(total_rooms)
    THEN [err |-> "Total rooms must be a positive integer", hotels |-> hs]
    ELSE IF In(name, hs)
    THEN [err |-> "Hotel already exists", hotels |-> hs]
    ELSE [err |-> OK,
          hotels |-> Put(hs, name.val,
                         HotelToDict(name.val, location.val,
                                     total_rooms, 0))]

\* delete_hotel that refuses a hotel with rooms reserved
delete_hotel_OnlyEmpty(hs, name) ==
    IF ~In(name, hs)
    THEN [err |-> "Hotel not found", hotels |-> hs]
    ELSE IF hs[name.val].reserved_rooms > 0
         THEN [err |-> "Hotel has reservations", hotels |-> hs]
         ELSE [err |-> OK, hotels |-> Del(hs, name.val)]

delete_hotel(hs, name) ==
    IF ~In(name, hs)
    THEN [err |-> "Hotel not found", hotels |-> hs]
    ELSE [err |-> OK, hotels |-> Del(hs, name.val)]

\* the returned text is modelled by the five values it renders
display_hotel(hs, name) ==
    IF ~In(name, hs)
    THEN [err |-> "Hotel not found", hotels |-> hs, ret |-> <<>>]
    ELSE LET h == hs[name.val]
             available == h.total_rooms.val - Get(h, "reserved_rooms", 0)
         IN  [err |-> OK, hotels |-> hs,
              ret |-> <<h.name, h.location, h.total_rooms,
                        Get(h, "reserved_rooms", 0), available>>]

\* modify_hotel that refuses a total equal to the reserved rooms
modify_hotel_StrictAbove(hs, name, new_name, new_location, new_total_rooms) ==
    IF ~In(name, hs)
    THEN [err |-> "Hotel not found", hotels |-> hs]
    ELSE
      LET d0 == hs[name.val]
          locGiven == new_location.type # "NoneType"
          locBad == locGiven /\ ~NonEmptyStr(new_location)
          d1 == IF locGiven THEN [d0 EXCEPT !.location = new_location.val]
                ELSE d0
          roomsGiven == new_total_rooms.type # "NoneType"
          roomsBad == roomsGiven /\ ~PositiveInt(new_total_rooms)
          roomsBelow == roomsGiven /\ ~roomsBad
                        /\ new_total_rooms.val <= Get(d1, "reserved_rooms", 0)
          d2 == IF roomsGiven
                THEN [d1 EXCEPT !.total_rooms = new_total_rooms] ELSE d1
          rename == new_name.type # "NoneType" /\ ~PyEq(new_name, name)
      IN  IF locBad
          THEN [err |-> "Location must be a non-empty string", hotels |-> hs]
          ELSE IF roomsBad
          THEN [err |-> "Total rooms must be a positive integer",
                hotels |-> hs]
          ELSE IF roomsBelow
          THEN [err |-> "Cannot set total rooms below reserved rooms",
                hotels |-> hs]
          ELSE IF rename
          THEN IF ~NonEmptyStr(new_name)
               THEN [err |-> "Hotel name must be a non-empty string",
                     hotels |-> hs]
               ELSE IF In(new_name, hs)
               THEN [err |-> "Hotel already exists", hotels |-> hs]
               ELSE [err |-> OK,
                     hotels |-> Put(Del(hs, name.val), new_name.val,
                                    [d2 EXCEPT !.name = new_name.val])]
          ELSE [err |-> OK, hotels |-> Put(hs, name.val, d2)]

\* modify_hotel that renames without removing the old key
modify_hotel_KeepOldKey(hs, name, new_name, new_location, new_total_rooms) ==
    IF ~In(name, hs)
    THEN [err |-> "Hotel not found", hotels |-> hs]
    ELSE
      LET d0 == hs[name.val]
          locGiven == new_location.type # "NoneType"
          locBad == locGiven /\ ~NonEmptyStr(new_location)
          d1 == IF locGiven THEN [d0 EXCEPT !.location = new_location.val]
                ELSE d0
          roomsGiven == new_total_rooms.type # "NoneType"
          roomsBad == roomsGiven /\ ~PositiveInt(new_total_rooms)
          roomsBelow == roomsGiven /\ ~roomsBad
                        /\ new_total_rooms.val < Get(d1, "reserved_rooms", 0)
          d2 == IF roomsGiven
                THEN [d1 EXCEPT !.total_rooms = new_total_rooms] ELSE d1
          rename == new_name.type # "NoneType" /\ ~PyEq(new_name, name)
      IN  IF locBad
          THEN [err |-> "Location must be a non-empty string", hotels |-> hs]
          ELSE IF roomsBad
          THEN [err |-> "Total rooms must be a positive integer",
                hotels |-> hs]
          ELSE IF roomsBelow
          THEN [err |-> "Cannot set total rooms below reserved rooms",
                hotels |-> hs]
          ELSE IF rename
          THEN IF ~NonEmptyStr(new_name)
               THEN [err |-> "Hotel name must be a non-empty string",
                     hotels |-> hs]
               ELSE IF In(new_name, hs)
               THEN [err |-> "Hotel already exists", hotels |-> hs]
               ELSE [err |-> OK,
                     hotels |-> Put(hs, new_name.val,
                                    [d2 EXCEPT !.name = new_name.val])]
          ELSE [err |-> OK, hotels |-> Put(hs, name.val, d2)]

\* modify_hotel that takes its own name for a rename
modify_hotel_NoSelfTest(hs, name, new_name, new_location, new_total_rooms) ==
    IF ~In(name, hs)
    THEN [err |-> "Hotel not found", hotels |-> hs]
    ELSE
      LET d0 == hs[name.val]
          locGiven == new_location.type # "NoneType"
          locBad == locGiven /\ ~NonEmptyStr(new_location)
          d1 == IF locGiven THEN [d0 EXCEPT !.location = new_location.val]
                ELSE d0
          roomsGiven == new_total_rooms.type # "NoneType"
          roomsBad == roomsGiven /\ ~PositiveInt(new_total_rooms)
          roomsBelow == roomsGiven /\ ~roomsBad
                        /\ new_total_rooms.val < Get(d1, "reserved_rooms", 0)
          d2 == IF roomsGiven
                THEN [d1 EXCEPT !.total_rooms = new_total_rooms] ELSE d1
          rename == new_name.type # "NoneType"
      IN  IF locBad
          THEN [err |-> "Location must be a non-empty string", hotels |-> hs]
          ELSE IF roomsBad
          THEN [err |-> "Total rooms must be a positive integer",
                hotels |-> hs]
          ELSE IF roomsBelow
          THEN [err |-> "Cannot set total rooms below reserved rooms",
                hotels |-> hs]
          ELSE IF rename
          THEN IF ~NonEmptyStr(new_name)
               THEN [err |-> "Hotel name must be a non-empty string",
                     hotels |-> hs]
               ELSE IF In(new_name, hs)
               THEN [err |-> "Hotel already exists", hotels |-> hs]
               ELSE [err |-> OK,
                     hotels |-> Put(Del(hs, name.val), new_name.val,
                                    [d2 EXCEPT !.name = new_name.val])]
          ELSE [err |-> OK, hotels |-> Put(hs, name.val, d2)]

\* modify_hotel that does not test the new name
modify_hotel_NoNameCheck(hs, name, new_name, new_location, new_total_rooms) ==
    IF ~In(name, hs)
    THEN [err |-> "Hotel not found", hotels |-> hs]
    ELSE
      LET d0 == hs[name.val]
          locGiven == new_location.type # "NoneType"
          locBad == locGiven /\ ~NonEmptyStr(new_location)
          d1 == IF locGiven THEN [d0 EXCEPT !.location = new_location.val]
                ELSE d0
          roomsGiven == new_total_rooms.type # "NoneType"
          roomsBad == roomsGiven /\ ~PositiveInt(new_total_rooms)
          roomsBelow == roomsGiven /\ ~roomsBad
                        /\ new_total_rooms.val < Get(d1, "reserved_rooms", 0)
          d2 == IF roomsGiven
                THEN [d1 EXCEPT !.total_rooms = new_total_rooms] ELSE d1
          rename == new_name.type # "NoneType" /\ ~PyEq(new_name, name)
      IN  IF locBad
          THEN [err |-> "Location must be a non-empty string", hotels |-> hs]
          ELSE IF roomsBad
          THEN [err |-> "Total rooms must be a positive integer",
                hotels |-> hs]
          ELSE IF roomsBelow
          THEN [err |-> "Cannot set total rooms below reserved rooms",
                hotels |-> hs]
          ELSE IF rename
          THEN IF FALSE
               THEN [err |-> "Hotel name must be a non-empty string",
                     hotels |-> hs]
               ELSE IF In(new_name, hs)
               THEN [err |-> "Hotel already exists", hotels |-> hs]
               ELSE [err |-> OK,
                     hotels |-> Put(Del(hs, name.val), new_name.val,
                                    [d2 EXCEPT !.name = new_name.val])]
          ELSE [err |-> OK, hotels |-> Put(hs, name.val, d2)]

\* modify_hotel that stores a record made anew, with no room reserved
modify_hotel_FreshRecord(hs, name, new_name, new_location, new_total_rooms) ==
    IF ~In(name, hs)
    THEN [err |-> "Hotel not found", hotels |-> hs]
    ELSE
      LET d0 == hs[name.val]
          locGiven == new_location.type # "NoneType"
          locBad == locGiven /\ ~NonEmptyStr(new_location)
          d1 == IF locGiven THEN [d0 EXCEPT !.location = new_location.val]
                ELSE d0
          roomsGiven == new_total_rooms.type # "NoneType"
          roomsBad == roomsGiven /\ ~PositiveInt(new_total_rooms)
          roomsBelow == roomsGiven /\ ~roomsBad
                        /\ new_total_rooms.val < Get(d1, "reserved_rooms", 0)
          d2 == IF roomsGiven
                THEN [d1 EXCEPT !.total_rooms = new_total_rooms] ELSE d1
          rename == new_name.type # "NoneType" /\ ~PyEq(new_name, name)
      IN  IF locBad
          THEN [err |-> "Location must be a non-empty string", hotels |-> hs]
          ELSE IF roomsBad
          THEN [err |-> "Total rooms must be a positive integer",
                hotels |-> hs]
          ELSE IF roomsBelow
          THEN [err |-> "Cannot set total rooms below reserved rooms",
                hotels |-> hs]
          ELSE IF rename
          THEN IF ~NonEmptyStr(new_name)
               THEN [err |-> "Hotel name must be a non-empty string",
                     hotels |-> hs]
               ELSE IF In(new_name, hs)
               THEN [err |-> "Hotel already exists", hotels |-> hs]
               ELSE [err |-> OK,
                     hotels |-> Put(Del(hs, name.val), new_name.val,
                                    [d2 EXCEPT !.name = new_name.val])]
          ELSE [err |-> OK,
                hotels |-> Put(hs, name.val,
                               HotelToDict(d2.name, d2.location,
                                           d2.total_rooms, 0))]

\* hotel_data is the loaded record: it is changed in memory field by field,
\* and the file is written only by the save that ends the call
\* modify_hotel that moves the record to the new key with the old name in it
modify_hotel_StaleName(hs, name, new_name, new_location, new_total_rooms) ==
    IF ~In(name, hs)
    THEN [err |-> "Hotel not found", hotels |-> hs]
    ELSE
      LET d0 == hs[name.val]
          locGiven == new_location.type # "NoneType"
          locBad == locGiven /\ ~NonEmptyStr(new_location)
          d1 == IF locGiven THEN [d0 EXCEPT !.location = new_location.val]
                ELSE d0
          roomsGiven == new_total_rooms.type # "NoneType"
          roomsBad == roomsGiven /\ ~PositiveInt(new_total_rooms)
          roomsBelow == roomsGiven /\ ~roomsBad
                        /\ new_total_rooms.val < Get(d1, "reserved_rooms", 0)
          d2 == IF roomsGiven
                THEN [d1 EXCEPT !.total_rooms = new_total_rooms] ELSE d1
          rename == new_name.type # "NoneType" /\ ~PyEq(new_name, name)
      IN  IF locBad
          THEN [err |-> "Location must be a non-empty string", hotels |-> hs]
          ELSE IF roomsBad
          THEN [err |-> "Total rooms must be a positive integer",
                hotels |-> hs]
          ELSE IF roomsBelow
          THEN [err |-> "Cannot set total rooms below reserved rooms",
                hotels |-> hs]
          ELSE IF rename
          THEN IF ~NonEmptyStr(new_name)
               THEN [err |-> "Hotel name must be a non-empty string",
                     hotels |-> hs]
               ELSE IF In(new_name, hs)
               THEN [err |-> "Hotel already exists", hotels |-> hs]
               ELSE [err |-> OK,
                     hotels |-> Put(Del(hs, name.val), new_name.val, d2)]
          ELSE [err |-> OK, hotels |-> Put(hs, name.val, d2)]

modify_hotel(hs, name, new_name, new_location, new_total_rooms) ==
    IF ~In(name, hs)
    THEN [err |-> "Hotel not found", hotels |-> hs]
    ELSE
      LET d0 == hs[name.val]
          locGiven == new_location.type # "NoneType"
          locBad == locGiven /\ ~NonEmptyStr(new_location)
          d1 == IF locGiven THEN [d0 EXCEPT !.location = new_location.val]
                ELSE d0
          roomsGiven == new_total_rooms.type # "NoneType"
          roomsBad == roomsGiven /\ ~PositiveInt(new_total_rooms)
          roomsBelow == roomsGiven /\ ~roomsBad
                        /\ new_total_rooms.val < Get(d1, "reserved_rooms", 0)
          d2 == IF roomsGiven
                THEN [d1 EXCEPT !.total_rooms = new_total_rooms] ELSE d1
          rename == new_name.type # "NoneType" /\ ~PyEq(new_name, name)
      IN  IF locBad
          THEN [err |-> "Location must be a non-empty string", hotels |-> hs]
          ELSE IF roomsBad
          THEN [err |-> "Total rooms must be a positive integer",
                hotels |-> hs]
          ELSE IF roomsBelow
          THEN [err |-> "Cannot set total rooms below reserved rooms",
                hotels |-> hs]
          ELSE IF rename
          THEN IF ~NonEmptyStr(new_name)
               THEN [err |-> "Hotel name must be a non-empty string",
                     hotels |-> hs]
               ELSE IF In(new_name, hs)
               THEN [err |-> "Hotel already exists", hotels |-> hs]
               ELSE [err |-> OK,
                     hotels |-> Put(Del(hs, name.val), new_name.val,
                                    [d2 EXCEPT !.name = new_name.val])]
          ELSE [err |-> OK, hotels |-> Put(hs, name.val, d2)]

\* reserve_room that counts two rooms for one
reserve_room_ByTwo(hs, name) ==
    IF ~In(name, hs)
    THEN [err |-> "Hotel not found", hotels |-> hs]
    ELSE LET h == hs[name.val]
         IN  IF Get(h, "reserved_rooms", 0) >= h.total_rooms.val
             THEN [err |-> "No available rooms", hotels |-> hs]
             ELSE [err |-> OK,
                   hotels |-> Put(hs, name.val,
                       Put(h, "reserved_rooms",
                                   Get(h, "reserved_rooms", 0) + 2))]

\* reserve_room without the capacity test
reserve_room_Unchecked(hs, name) ==
    IF ~In(name, hs)
    THEN [err |-> "Hotel not found", hotels |-> hs]
    ELSE LET h == hs[name.val]
         IN  [err |-> OK,
              hotels |-> Put(hs, name.val,
                  Put(h, "reserved_rooms",
                              Get(h, "reserved_rooms", 0) + 1))]

\* reserve_room with the capacity test off by one (> for >=)
reserve_room_OffByOne(hs, name) ==
    IF ~In(name, hs)
    THEN [err |-> "Hotel not found", hotels |-> hs]
    ELSE LET h == hs[name.val]
         IN  IF Get(h, "reserved_rooms", 0) > h.total_rooms.val
             THEN [err |-> "No available rooms", hotels |-> hs]
             ELSE [err |-> OK,
                   hotels |-> Put(hs, name.val,
                       Put(h, "reserved_rooms",
                                   Get(h, "reserved_rooms", 0) + 1))]

reserve_room(hs, name) ==
    IF ~In(name, hs)
    THEN [err |-> "Hotel not found", hotels |-> hs]
    ELSE LET h == hs[name.val]
         IN  IF Get(h, "reserved_rooms", 0) >= h.total_rooms.val
             THEN [err |-> "No available rooms", hotels |-> hs]
             ELSE [err |-> OK,
                   hotels |-> Put(hs, name.val,
                       Put(h, "reserved_rooms",
                                   Get(h, "reserved_rooms", 0) + 1))]

\* cancel_room that releases every room of the hotel
cancel_room_ReleaseAll(hs, name) ==
    IF ~In(name, hs)
    THEN [err |-> "Hotel not found", hotels |-> hs]
    ELSE LET h == hs[name.val]
         IN  IF Get(h, "reserved_rooms", 0) <= 0
             THEN [err |-> "No reservations to cancel", hotels |-> hs]
             ELSE [err |-> OK,
                   hotels |-> Put(hs, name.val,
                                  [h EXCEPT !.reserved_rooms = 0])]

\* cancel_room without the test for a reserved room
cancel_room_Unchecked(hs, name) ==
    IF ~In(name, hs)
    THEN [err |-> "Hotel not found", hotels |-> hs]
    ELSE LET h == hs[name.val]
         IN  [err |-> OK,
              hotels |-> Put(hs, name.val,
                  [h EXCEPT !.reserved_rooms = h.reserved_rooms - 1])]

cancel_room(hs, name) ==
    IF ~In(name, hs)
    THEN [err |-> "Hotel not found", hotels |-> hs]
    ELSE LET h == hs[name.val]
         IN  IF Get(h, "reserved_rooms", 0) <= 0
             THEN [err |-> "No reservations to cancel", hotels |-> hs]
             ELSE [err |-> OK,
                   hotels |-> Put(hs, name.val,
                       [h EXCEPT !.reserved_rooms = h.reserved_rooms - 1])]

(***************************************************************************)
(* reservation.py                                                          *)
(***************************************************************************)
\* to_dict with customer_id and hotel_name exchanged
ReservationToDict_Swapped(reservation_id, customer_id, hotel_name) ==
    [reservation_id |-> reservation_id, customer_id |-> hotel_name,
     hotel_name |-> customer_id]

ReservationToDict(reservation_id, customer_id, hotel_name) ==
    [reservation_id |-> reservation_id, customer_id |-> customer_id,
     hotel_name |-> hotel_name]

\* Reservation.__init__
Reservation(reservation_id, customer_id, hotel_name) ==
    [class |-> "Reservation", reservation_id |-> reservation_id,
     customer_id |-> customer_id, hotel_name |-> hotel_name]

\* Reservation.to_dict
Reservation_to_dict(self) ==
    ReservationToDict(self.reservation_id, self.customer_id, self.hotel_name)

\* Reservation.from_dict
Reservation_from_dict(data) ==
    Reservation(data.reservation_id, data.customer_id, data.hotel_name)

\* create_reservation that takes a full hotel for a success and writes nothing
create_reservation_SwallowFull(cs, hs, rs, customer_id, hotel_name, reservation_id) ==
    IF ~In(customer_id, cs)
    THEN [err |-> "Customer not found", hotels |-> hs, reservations |-> rs]
    ELSE IF ~In(hotel_name, hs)
    THEN [err |-> "Hotel not found", hotels |-> hs, reservations |-> rs]
    ELSE LET rr == reserve_room(hs, hotel_name)
             reservation ==
                 ReservationToDict(reservation_id, customer_id.val,
                                   hotel_name.val)
         IN  IF rr.err # OK
             THEN [err |-> OK, hotels |-> rr.hotels, reservations |-> rs,
                   ret |-> reservation]
             ELSE [err |-> OK, hotels |-> rr.hotels,
                   reservations |-> Put(rs, reservation_id, reservation),
                   ret |-> reservation]

\* create_reservation that writes the record before it reserves the room
create_reservation_WriteFirst(cs, hs, rs, customer_id, hotel_name, reservation_id) ==
    IF ~In(customer_id, cs)
    THEN [err |-> "Customer not found", hotels |-> hs, reservations |-> rs]
    ELSE IF ~In(hotel_name, hs)
    THEN [err |-> "Hotel not found", hotels |-> hs, reservations |-> rs]
    ELSE LET rr == reserve_room(hs, hotel_name)
             reservation ==
                 ReservationToDict(reservation_id, customer_id.val,
                                   hotel_name.val)
         IN  IF rr.err # OK
             THEN [err |-> rr.err, hotels |-> rr.hotels,
                   reservations |-> Put(rs, reservation_id, reservation)]
             ELSE [err |-> OK, hotels |-> rr.hotels,
                   reservations |-> Put(rs, reservation_id, reservation),
                   ret |-> reservation]

\* create_reservation that looks the hotel up before the customer
create_reservation_HotelFirst(cs, hs, rs, customer_id, hotel_name, reservation_id) ==
    IF ~In(hotel_name, hs)
    THEN [err |-> "Hotel not found", hotels |-> hs, reservations |-> rs]
    ELSE IF ~In(customer_id, cs)
    THEN [err |-> "Customer not found", hotels |-> hs, reservations |-> rs]
    ELSE LET rr == reserve_room(hs, hotel_name)
         IN  IF rr.err # OK
             THEN [err |-> rr.err, hotels |-> rr.hotels,
                   reservations |-> rs]
             ELSE LET reservation ==
                          ReservationToDict(reservation_id, customer_id.val,
                                            hotel_name.val)
                  IN  [err |-> OK, hotels |-> rr.hotels,
                       reservations |-> Put(rs, reservation_id, reservation),
                       ret |-> reservation]

\* reservation_id is what str(uuid.uuid4())[:8] returns in this call: any
\* 8-character identifier, one that is already a key included
\* create_reservation that records the reservation without reserving a room
create_reservation_Free(cs, hs, rs, customer_id, hotel_name, reservation_id) ==
    IF ~In(customer_id, cs)
    THEN [err |-> "Customer not found", hotels |-> hs, reservations |-> rs]
    ELSE IF ~In(hotel_name, hs)
    THEN [err |-> "Hotel not found", hotels |-> hs, reservations |-> rs]
    ELSE LET reservation ==
                 ReservationToDict(reservation_id, customer_id.val,
                                   hotel_name.val)
         IN  [err |-> OK, hotels |-> hs,
              reservations |-> Put(rs, reservation_id, reservation),
              ret |-> reservation]

create_reservation(cs, hs, rs, customer_id, hotel_name, reservation_id) ==
    IF ~In(customer_id, cs)
    THEN [err |-> "Customer not found", hotels |-> hs, reservations |-> rs]
    ELSE IF ~In(hotel_name, hs)
    THEN [err |-> "Hotel not found", hotels |-> hs, reservations |-> rs]
    ELSE LET rr == reserve_room(hs, hotel_name)
         IN  IF rr.err # OK
             THEN [err |-> rr.err, hotels |-> rr.hotels,
                   reservations |-> rs]
             ELSE LET reservation ==
                          ReservationToDict(reservation_id, customer_id.val,
                                            hotel_name.val)
                  IN  [err |-> OK, hotels |-> rr.hotels,
                       reservations |-> Put(rs, reservation_id, reservation),
                       ret |-> reservation]

\* cancel_reservation that takes an absent id for a success and does nothing
cancel_reservation_Idempotent(hs, rs, reservation_id) ==
    IF ~In(reservation_id, rs)
    THEN [err |-> OK, hotels |-> hs, reservations |-> rs]
    ELSE LET r == rs[reservation_id.val]
             cr == cancel_room(hs, Str(r.hotel_name))
         IN  IF cr.err # OK
             THEN [err |-> cr.err, hotels |-> cr.hotels,
                   reservations |-> rs]
             ELSE [err |-> OK, hotels |-> cr.hotels,
                   reservations |-> Del(rs, reservation_id.val)]

\* cancel_reservation that removes the record without releasing the room
cancel_reservation_NoRelease(hs, rs, reservation_id) ==
    IF ~In(reservation_id, rs)
    THEN [err |-> "Reservation not found", hotels |-> hs,
          reservations |-> rs]
    ELSE [err |-> OK, hotels |-> hs,
          reservations |-> Del(rs, reservation_id.val)]

\* cancel_reservation that removes the record before it releases the room
cancel_reservation_DeleteFirst(hs, rs, reservation_id) ==
    IF ~In(reservation_id, rs)
    THEN [err |-> "Reservation not found", hotels |-> hs,
          reservations |-> rs]
    ELSE LET r == rs[reservation_id.val]
             cr == cancel_room(hs, Str(r.hotel_name))
         IN  [err |-> cr.err, hotels |-> cr.hotels,
              reservations |-> Del(rs, reservation_id.val)]

\* cancel_reservation that drops a record whose hotel is not stored
cancel_reservation_DropOrphan(hs, rs, reservation_id) ==
    IF ~In(reservation_id, rs)
    THEN [err |-> "Reservation not found", hotels |-> hs,
          reservations |-> rs]
    ELSE LET r == rs[reservation_id.val]
             cr == cancel_room(hs, Str(r.hotel_name))
         IN  IF cr.err # OK /\ cr.err # "Hotel not found"
             THEN [err |-> cr.err, hotels |-> cr.hotels,
                   reservations |-> rs]
             ELSE [err |-> OK, hotels |-> cr.hotels,
                   reservations |-> Del(rs, reservation_id.val)]

\* cancel_reservation that releases the room and keeps the record
cancel_reservation_KeepRecord(hs, rs, reservation_id) ==
    IF ~In(reservation_id, rs)
    THEN [err |-> "Reservation not found", hotels |-> hs,
          reservations |-> rs]
    ELSE LET r == rs[reservation_id.val]
             cr == cancel_room(hs, Str(r.hotel_name))
         IN  IF cr.err # OK
             THEN [err |-> cr.err, hotels |-> cr.hotels,
                   reservations |-> rs]
             ELSE [err |-> OK, hotels |-> cr.hotels, reservations |-> rs]

\* cancel_reservation that releases a room in every hotel that has one reserved
cancel_reservation_ReleaseEverywhere(hs, rs, reservation_id) ==
    IF ~In(reservation_id, rs)
    THEN [err |-> "Reservation not found", hotels |-> hs,
          reservations |-> rs]
    ELSE LET r == rs[reservation_id.val]
             cr == cancel_room(hs, Str(r.hotel_name))
         IN  IF cr.err # OK
             THEN [err |-> cr.err, hotels |-> cr.hotels,
                   reservations |-> rs]
             ELSE [err |-> OK,
                   hotels |->
                       [n \in DOMAIN hs |->
                           IF hs[n].reserved_rooms > 0
                           THEN [hs[n] EXCEPT !.reserved_rooms = @ - 1]
                           ELSE hs[n]],
                   reservations |-> Del(rs, reservation_id.val)]

cancel_reservation(hs, rs, reservation_id) ==
    IF ~In(reservation_id, rs)
    THEN [err |-> "Reservation not found", hotels |-> hs,
          reservations |-> rs]
    ELSE LET r == rs[reservation_id.val]
             cr == cancel_room(hs, Str(r.hotel_name))
         IN  IF cr.err # OK
             THEN [err |-> cr.err, hotels |-> cr.hotels,
                   reservations |-> rs]
             ELSE [err |-> OK, hotels |-> cr.hotels,
                   reservations |-> Del(rs, reservation_id.val)]

(***************************************************************************)
(* Processes.  pc is the step that comes next ("idle" before a call,       *)
(* "done" after its return, "interrupted" when the process was stopped in  *)
(* the call, at the step named by at); op and customer_id, name, id are    *)
(* the call and its arguments; hs and rs are the mappings in memory, to be *)
(* saved; seen is the reserved_rooms that the room operation loaded; h0    *)
(* and r0 are the two files as they were when a create_reservation or a    *)
(* cancel_reservation began; ret is the outcome of the call.               *)
(***************************************************************************)
Procs == {"p1", "p2"}
RacedHotel == "Plaza"

IdleProc ==
    [pc |-> "idle", at |-> "idle", op |-> "none", customer_id |-> None,
     name |-> None, id |-> None, hs |-> EmptyStore, rs |-> EmptyStore,
     seen |-> 0, h0 |-> EmptyStore, r0 |-> EmptyStore, ret |-> OK]

(***************************************************************************)
(* The characters of a file.  json.dump(store, f, indent=2) hands the text *)
(* to the file piece by piece; the file object keeps the pieces until the  *)
(* with statement closes it and then writes them in one piece at offset 0  *)
(* of the file that the open returned (the texts of the stores are shorter *)
(* than its buffer of 8192 characters).  A dict keeps its keys in the      *)
(* order in which they were added and json.dump follows it; the mappings   *)
(* of the model keep no order, so that the order is given beside the       *)
(* mapping.  The strings of the stores hold no quote, backslash, control   *)
(* character or character beyond ASCII, which json.dump would escape.      *)
(***************************************************************************)
\* the pieces that json.dump(store, f, indent=2) writes one after another,
\* keys being the keys of store in the order of the dict: {} for the empty
\* mapping; else the braces, the indentations, the keys, the separators and
\* the values, a string in its quotes, an int as its numeral, True as true,
\* False as false, None as null.  The fields of a record stand in the order
\* in which to_dict wrote them.
Chunks(store, keys) ==
    LET RECURSIVE Numeral(_)
        Numeral(n) ==
            IF n < 0 THEN "-" \o Numeral(0 - n)
            ELSE IF n < 10 THEN SubSeq("0123456789", n + 1, n + 1)
            ELSE Numeral(n \div 10) \o Numeral(n % 10)
        Quoted(s) == "\"" \o s \o "\""
        Value(rec, f) ==
            IF f = "total_rooms"
            THEN CASE rec[f].type = "str" -> Quoted(rec[f].val)
                   [] rec[f].type = "int" -> Numeral(rec[f].val)
                   [] rec[f].type = "bool" ->
                          IF rec[f].val = 1 THEN "true" ELSE "false"
                   [] OTHER -> "null"
            ELSE IF f = "reserved_rooms" THEN Numeral(rec[f])
            ELSE Quoted(rec[f])
        Fields(rec) ==
            LET Has(f) == f \in DOMAIN rec
            IN  SelectSeq(IF "reservation_id" \in DOMAIN rec
                          THEN <<"reservation_id", "customer_id",
                                 "hotel_name">>
                          ELSE IF "customer_id" \in DOMAIN rec
                          THEN <<"customer_id", "name", "email">>
                          ELSE <<"name", "location", "total_rooms",
                                 "reserved_rooms">>,
                          Has)
        RECURSIVE FieldChunks(_, _, _)
        FieldChunks(rec, fs, i) ==
            IF i > Len(fs)
            THEN <<>>
            ELSE (IF i = 1 THEN <<>> ELSE <<",\n    ">>)
                     \o <<Quoted(fs[i]), ": ", Value(rec, fs[i])>>
                     \o FieldChunks(rec, fs, i + 1)
        RecordChunks(rec) ==
            IF DOMAIN rec = {}
            THEN <<"{}">>
            ELSE <<"{", "\n    ">> \o FieldChunks(rec, Fields(rec), 1)
                     \o <<"\n  ", "}">>
        RECURSIVE EntryChunks(_)
        EntryChunks(i) ==
            IF i > Len(keys)
            THEN <<>>
            ELSE (IF i = 1 THEN <<>> ELSE <<",\n  ">>)
                     \o <<Quoted(keys[i]), ": ">>
                     \o RecordChunks(store[keys[i]])
                     \o EntryChunks(i + 1)
    IN  IF Len(keys) = 0
        THEN <<"{}">>
        ELSE <<"{", "\n  ">> \o EntryChunks(1) \o <<"\n", "}">>

\* the first k of the pieces chunks, one after another
RECURSIVE Prefix(_, _)
Prefix(chunks, k) ==
    IF k = 0 THEN "" ELSE Prefix(chunks, k - 1) \o chunks[k]

\* the text that json.dump(store, f, indent=2) writes
json_dump(store, keys) ==
    LET chunks == Chunks(store, keys) IN Prefix(chunks, Len(chunks))

\* json.load on a file that holds the characters text: the value of the
\* document, or JSONDecodeError when the text is not one JSON document
\* (no character, a value that does not end, a key or a separator that is
\* missing, a control character inside a string, a numeral that begins with
\* 0, characters other than spaces after the document).  An object is given
\* as the mapping of its keys, the last value of a key that stands twice; a
\* value under the key total_rooms as the stored total_rooms are, with its
\* type; any other string or int as it is, true, false and null as True,
\* False and None.  The documents are those that the characters of the dumps
\* can make: they hold no array, no fraction, no exponent and no backslash.
json_load(text) ==
    LET n == Len(text)
        At(i) == IF i >= 1 /\ i <= n THEN SubSeq(text, i, i) ELSE ""
        Space(c) == c \in {" ", "\n", "\r", "\t"}
        Digit(c) == c \in {"0", "1", "2", "3", "4", "5", "6", "7", "8", "9"}
        Fail == [ok |-> FALSE, pos |-> 0, val |-> None]
        RECURSIVE Skip(_)
        Skip(i) == IF Space(At(i)) THEN Skip(i + 1) ELSE i
        RECURSIVE Back(_)
        Back(i) == IF Space(At(i)) THEN Back(i - 1) ELSE i
        RECURSIVE Quote(_)
        Quote(i) ==
            IF i > n \/ At(i) \in {"\n", "\r", "\t", "\\"} THEN 0
            ELSE IF At(i) = "\"" THEN i
            ELSE Quote(i + 1)
        RECURSIVE NotDigit(_)
        NotDigit(i) == IF Digit(At(i)) THEN NotDigit(i + 1) ELSE i
        RECURSIVE IntOf(_, _)
        IntOf(i, j) ==
            IF j < i
            THEN 0
            ELSE 10 * IntOf(i, j - 1)
                     + (CHOOSE d \in 0 .. 9 :
                            SubSeq("0123456789", d + 1, d + 1) = At(j))
        Number(i) ==
            LET d == IF At(i) = "-" THEN i + 1 ELSE i
                e == IF At(d) = "0" THEN d + 1 ELSE NotDigit(d)
            IN  IF e = d \/ At(e) \in {".", "e", "E"}
                THEN Fail
                ELSE [ok |-> TRUE, pos |-> e,
                      val |-> IF d = i THEN IntOf(d, e - 1)
                              ELSE 0 - IntOf(d, e - 1)]
        RECURSIVE Value(_, _), Members(_, _)
        Value(i, key) ==
            IF At(i) = "{"
            THEN LET j == Skip(i + 1)
                 IN  IF At(j) = "}"
                     THEN [ok |-> TRUE, pos |-> j + 1, val |-> EmptyStore]
                     ELSE Members(j, <<>>)
            ELSE IF At(i) = "\""
            THEN LET e == Quote(i + 1)
                 IN  IF e = 0
                     THEN Fail
                     ELSE [ok |-> TRUE, pos |-> e + 1,
                           val |-> IF key = "total_rooms"
                                   THEN Str(SubSeq(text, i + 1, e - 1))
                                   ELSE SubSeq(text, i + 1, e - 1)]
            ELSE IF i + 3 <= n /\ SubSeq(text, i, i + 3) = "true"
            THEN [ok |-> TRUE, pos |-> i + 4, val |-> PyBool(1)]
            ELSE IF i + 4 <= n /\ SubSeq(text, i, i + 4) = "false"
            THEN [ok |-> TRUE, pos |-> i + 5, val |-> PyBool(0)]
            ELSE IF i + 3 <= n /\ SubSeq(text, i, i + 3) = "null"
            THEN [ok |-> TRUE, pos |-> i + 4, val |-> None]
            ELSE LET r == Number(i)
                 IN  IF r.ok /\ key = "total_rooms"
                     THEN [r EXCEPT !.val = PyInt(r.val)]
                     ELSE r
        Members(i, done) ==
            LET e == Quote(i + 1)
                k == SubSeq(text, i + 1, e - 1)
                c == Skip(e + 1)
                v == Value(Skip(c + 1), k)
                j == Skip(v.pos)
                all == Append(done, <<k, v.val>>)
                Last(y) == CHOOSE x \in 1 .. Len(all) :
                               /\ all[x][1] = y
                               /\ \A z \in x + 1 .. Len(all) : all[z][1] # y
            IN  IF At(i) # "\"" \/ e = 0 THEN Fail
                ELSE IF At(c) # ":" THEN Fail
                ELSE IF ~v.ok THEN Fail
                ELSE IF At(j) = ","
                THEN Members(Skip(j + 1), all)
                ELSE IF At(j) = "}"
                THEN [ok |-> TRUE, pos |-> j + 1,
                      val |-> [y \in {all[x][1] : x \in 1 .. Len(all)}
                                  |-> all[Last(y)][2]]]
                ELSE Fail
        first == Skip(1)
        doc == Value(first, "")
    IN  IF first > n \/ (At(first) = "{" /\ At(Back(n)) # "}")
        THEN [err |-> "JSONDecodeError", data |-> EmptyStore]
        ELSE IF doc.ok /\ Skip(doc.pos) > n
        THEN [err |-> OK, data |-> doc.val]
        ELSE [err |-> "JSONDecodeError", data |-> EmptyStore]

\* the orders in which the keys S of a dict can stand
Orders(S) ==
    {s \in [1 .. Cardinality(S) -> S] :
        \A i, j \in 1 .. Cardinality(S) : s[i] = s[j] => i = j}

\* the path with no file; the file of a path is given with its characters
NoFile == [there |-> FALSE, text |-> ""]

\* the file of no bytes that open(..., "w") leaves
Truncated == [data |-> EmptyStore, dmg |-> "empty"]

\* what the path names once a save that opened its file with "w" some time
\* before has written text at the start of it and closed it.  held says that
\* the file that the save opened is still the file of the path: the text
\* then stands at the start of what the file holds, followed by what the
\* file holds beyond the length of the text (characters that another
\* process wrote since the open; none when nothing was written since).
\* When the file was removed since the open, and a new one made at the path
\* or not, the text goes to the removed file and the path names what it
\* named.
WriteAtStart(path, held, text) ==
    IF held /\ path.there
    THEN [path EXCEPT
             !.text = IF Len(text) >= Len(path.text)
                      THEN text
                      ELSE text \o SubSeq(path.text, Len(text) + 1,
                                          Len(path.text))]
    ELSE path

\* _save_hotels that reads the file before it writes and writes the mapping
\* with the counters no lower than those in the file
save_hotels_KeepHigher(path, held, hs, keys) ==
    LET file == json_load(path.text).data
    IN  WriteAtStart(path, held,
            json_dump([n \in DOMAIN hs |->
                          IF n \in DOMAIN file
                                /\ file[n].reserved_rooms
                                       >= hs[n].reserved_rooms
                          THEN [hs[n] EXCEPT
                                   !.reserved_rooms =
                                       file[n].reserved_rooms + 1]
                          ELSE hs[n]],
                      keys))

\* _save_hotels, from json.dump to the end of the with statement: the text
\* of the whole mapping is written at the start of the file that was opened
save_hotels(path, held, hs, keys) ==
    WriteAtStart(path, held, json_dump(hs, keys))

\* _save_reservations, from json.dump to the end of the with statement
save_reservations(path, held, rs, keys) ==
    WriteAtStart(path, held, json_dump(rs, keys))

\* the files that the mapping store and the kind dmg of the state stand for
\* while a save holds the file open.  The open has emptied the file, so that
\* it holds what was written since.  Nothing; or the dump of the mapping that
\* another save has written, {} for the empty one, its keys in one of their
\* orders; or the path has no file, the opened one having been removed; or
\* characters that are no JSON document: the first pieces of the dump of
\* another save that was stopped inside json.dump, '{' after one piece,
\* whose with statement has closed the file.  The state keeps the kind of
\* such a file and none of its characters, so that it stands for every file
\* of characters that json.load refuses.
\* Two processes leave no other document than a whole dump in a file that
\* one of them holds open, each save of the other one emptying the file
\* before it writes: the start of one dump before the rest of another takes
\* three saves that have the file open at a time.  The bytes of the kind
\* "bytes" are no characters: the saves write ASCII, and such bytes come
\* from outside the program, which writes where the calls run whole.
Held(store, dmg) ==
    IF dmg = "unlinked" THEN {NoFile}
    ELSE IF dmg = "empty" THEN {[there |-> TRUE, text |-> ""]}
    ELSE IF dmg = "none"
    THEN {[there |-> TRUE, text |-> json_dump(store, ks)] :
              ks \in Orders(DOMAIN store)}
    ELSE IF dmg = "text"
    THEN {f \in [there : {TRUE}, text : STRING] :
              f.text # "" /\ json_load(f.text).err # OK}
    ELSE {}

\* what the state keeps of the file that the path names after a save of the
\* mapping data, whose dump is text: the kind, and the mapping that a loader
\* returns.  json.load of the dump of a mapping returns the mapping.
Stored(path, data, text) ==
    IF ~path.there THEN [data |-> EmptyStore, dmg |-> "unlinked"]
    ELSE IF path.text = "" THEN Truncated
    ELSE IF path.text = text THEN [data |-> data, dmg |-> "none"]
    ELSE LET r == json_load(path.text)
         IN  IF r.err = OK
             THEN [data |-> r.data, dmg |-> "none"]
             ELSE [data |-> EmptyStore, dmg |-> "text"]

\* the steps before a save of the hotel file and of the reservation file
HotelSaves ==
    {"create_hotel: save", "modify_hotel: save", "delete_hotel: save",
     "reserve_room: save", "cancel_room: save"}

ReservationSaves ==
    {"create_reservation: save reservations",
     "cancel_reservation: save reservations"}

\* the step inside the with statement of a save, the file open and the dump
\* not yet written
Opened(pc) ==
    CASE pc = "create_hotel: save" -> "create_hotel: dump"
      [] pc = "modify_hotel: save" -> "modify_hotel: dump"
      [] pc = "delete_hotel: save" -> "delete_hotel: dump"
      [] pc = "reserve_room: save" -> "reserve_room: dump"
      [] pc = "cancel_room: save" -> "cancel_room: dump"
      [] pc = "create_reservation: save reservations" ->
             "create_reservation: dump reservations"
      [] pc = "cancel_reservation: save reservations" ->
             "cancel_reservation: dump reservations"

HotelDumps == {Opened(pc) : pc \in HotelSaves}
ReservationDumps == {Opened(pc) : pc \in ReservationSaves}

(***************************************************************************)
(* Arguments of the calls.                                                 *)
(***************************************************************************)
StrArgs(S) == {Str(s) : s \in S \cup {""}}
OptStrArgs(S) == StrArgs(S) \cup {None}
KeyArgs(S) == StrArgs(S) \cup {None, PyInt(123)}
RoomArgs == {PyInt(n) : n \in 0 .. MaxRooms} \cup {Str("ten")}
OptRoomArgs == RoomArgs \cup {None}
\* with the arguments of another type: an int for a string, True for an int
TypedStrArgs(S) == StrArgs(S) \cup {PyInt(123)}
OptTypedStrArgs(S) == TypedStrArgs(S) \cup {None}
TypedRoomArgs == RoomArgs \cup {PyInt(-1), PyBool(1), PyBool(0)}
OptTypedRoomArgs == TypedRoomArgs \cup {None}

(***************************************************************************)
(* The system: the three files are empty (absent) at the start; a step is  *)
(* one call of a public operation, run to completion.  last names the call *)
(* and the kind of its outcome.                                            *)
(***************************************************************************)
Init ==
    /\ customers = EmptyStore
    /\ hotels = EmptyStore
    /\ reservations = EmptyStore
    /\ last = [op |-> "none", kind |-> "ok"]
    /\ protocolOnly = TRUE
    /\ holdsKept = TRUE
    /\ damaged = [f \in Files |-> "none"]
    /\ roundtrip = [self |-> NoObject, data |-> EmptyStore, back |-> NoObject]
    /\ procs = [p \in Procs |-> IdleProc]

CreateCustomerCall(id, n, e) ==
    LET r == create_customer(customers, id, n, e)
    IN  /\ customers' = r.customers
        /\ last' = [op |-> "create_customer", kind |-> Kind(r.err)]
        /\ UNCHANGED <<hotels, reservations, protocolOnly, holdsKept, damaged,
                       roundtrip, procs>>

CreateCustomer ==
    \E id \in StrArgs(CustomerIds), n \in StrArgs(CustomerNames),
       e \in StrArgs(Emails) :
        CreateCustomerCall(id, n, e)

\* delete_customer call that also removes the reservations of the customer
DeleteCustomerCall_Cascade(id) ==
    LET r == delete_customer(customers, id)
    IN  /\ customers' = r.customers
        /\ reservations' =
               [k \in {k \in DOMAIN reservations :
                          Str(reservations[k].customer_id) # id}
                   |-> reservations[k]]
        /\ last' = [op |-> "delete_customer", kind |-> Kind(r.err)]
        /\ UNCHANGED <<hotels, protocolOnly, holdsKept, damaged, roundtrip,
                       procs>>

DeleteCustomerCall(id) ==
    LET r == delete_customer(customers, id)
    IN  /\ customers' = r.customers
        /\ last' = [op |-> "delete_customer", kind |-> Kind(r.err)]
        /\ UNCHANGED <<hotels, reservations, protocolOnly, holdsKept, damaged,
                       roundtrip, procs>>

DeleteCustomer ==
    \E id \in KeyArgs(CustomerIds) : DeleteCustomerCall(id)

DisplayCustomerCall(id) ==
    LET r == display_customer(customers, id)
    IN  /\ customers' = r.customers
        /\ last' = [op |-> "display_customer", kind |-> Kind(r.err)]
        /\ UNCHANGED <<hotels, reservations, protocolOnly, holdsKept, damaged,
                       roundtrip, procs>>

DisplayCustomer ==
    \E id \in KeyArgs(CustomerIds) : DisplayCustomerCall(id)

ModifyCustomerCall(id, n, e) ==
    LET r == modify_customer(customers, id, n, e)
    IN  /\ customers' = r.customers
        /\ last' = [op |-> "modify_customer", kind |-> Kind(r.err)]
        /\ UNCHANGED <<hotels, reservations, protocolOnly, holdsKept, damaged,
                       roundtrip, procs>>

ModifyCustomer ==
    \E id \in StrArgs(CustomerIds), n \in OptStrArgs(CustomerNames),
       e \in OptStrArgs(Emails) :
        ModifyCustomerCall(id, n, e)

CreateHotelCall(n, l, t) ==
    LET r == create_hotel(hotels, n, l, t)
    IN  /\ hotels' = r.hotels
        /\ last' = [op |-> "create_hotel", kind |-> Kind(r.err)]
        /\ UNCHANGED <<customers, reservations, protocolOnly, holdsKept,
                       damaged, roundtrip, procs>>

CreateHotel ==
    \E n \in StrArgs(HotelNames), l \in StrArgs(Locations), t \in RoomArgs :
        CreateHotelCall(n, l, t)

DeleteHotel ==
    \E n \in KeyArgs(HotelNames) :
        LET r == delete_hotel(hotels, n)
        IN  /\ hotels' = r.hotels
            /\ last' = [op |-> "delete_hotel", kind |-> Kind(r.err)]
            /\ protocolOnly' = (protocolOnly /\ r.err # OK)
            /\ holdsKept' = (holdsKept /\ r.err # OK)
            /\ UNCHANGED <<customers, reservations, damaged, roundtrip, procs>>

DisplayHotel ==
    \E n \in KeyArgs(HotelNames) :
        LET r == display_hotel(hotels, n)
        IN  /\ hotels' = r.hotels
            /\ last' = [op |-> "display_hotel", kind |-> Kind(r.err)]
            /\ UNCHANGED <<customers, reservations, protocolOnly, holdsKept,
                           damaged, roundtrip, procs>>

ModifyHotelCall(n, nn, l, t) ==
    LET r == modify_hotel(hotels, n, nn, l, t)
    IN  /\ hotels' = r.hotels
        /\ last' = [op |-> "modify_hotel", kind |-> Kind(r.err)]
        /\ protocolOnly' =
               (protocolOnly /\ (r.err # OK \/ n.val \in DOMAIN r.hotels))
        /\ holdsKept' =
               (holdsKept /\ (r.err # OK \/ n.val \in DOMAIN r.hotels))
        /\ UNCHANGED <<customers, reservations, damaged, roundtrip, procs>>

ModifyHotel ==
    \E n \in StrArgs(HotelNames), nn \in OptStrArgs(HotelNames),
       l \in OptStrArgs(Locations), t \in OptRoomArgs :
        ModifyHotelCall(n, nn, l, t)

ReserveRoom ==
    \E n \in KeyArgs(HotelNames) :
        LET r == reserve_room(hotels, n)
        IN  /\ hotels' = r.hotels
            /\ last' = [op |-> "reserve_room", kind |-> Kind(r.err)]
            /\ protocolOnly' = (protocolOnly /\ r.err # OK)
            /\ UNCHANGED <<customers, reservations, holdsKept, damaged,
                           roundtrip, procs>>

CancelRoom ==
    \E n \in KeyArgs(HotelNames) :
        LET r == cancel_room(hotels, n)
        IN  /\ hotels' = r.hotels
            /\ last' = [op |-> "cancel_room", kind |-> Kind(r.err)]
            /\ protocolOnly' = (protocolOnly /\ r.err # OK)
            /\ holdsKept' = (holdsKept /\ r.err # OK)
            /\ UNCHANGED <<customers, reservations, damaged, roundtrip, procs>>

CreateReservation ==
    \E c \in StrArgs(CustomerIds), h \in StrArgs(HotelNames),
       id \in ReservationIds :
        LET r == create_reservation(customers, hotels, reservations, c, h, id)
        IN  /\ hotels' = r.hotels
            /\ reservations' = r.reservations
            /\ last' = [op |-> "create_reservation", kind |-> Kind(r.err)]
            /\ protocolOnly' =
                   (protocolOnly
                       /\ (r.err # OK \/ id \notin DOMAIN reservations))
            /\ UNCHANGED <<customers, holdsKept, damaged, roundtrip, procs>>

CancelReservation ==
    \E id \in KeyArgs(ReservationIds) :
        LET r == cancel_reservation(hotels, reservations, id)
        IN  /\ hotels' = r.hotels
            /\ reservations' = r.reservations
            /\ last' = [op |-> "cancel_reservation", kind |-> Kind(r.err)]
            /\ UNCHANGED <<customers, protocolOnly, holdsKept, damaged,
                           roundtrip, procs>>

Next ==
    \/ CreateCustomer
    \/ DeleteCustomer
    \/ DisplayCustomer
    \/ ModifyCustomer
    \/ CreateHotel
    \/ DeleteHotel
    \/ DisplayHotel
    \/ ModifyHotel
    \/ ReserveRoom
    \/ CancelRoom
    \/ CreateReservation
    \/ CancelReservation

Spec == Init /\ [][Next]_vars

(***************************************************************************)
(* The hotel store alone, with two locations and arguments of every type.  *)
(* The room counters it reaches are those of the whole system, where       *)
(* create_reservation and cancel_reservation change them through           *)
(* reserve_room and cancel_room.                                           *)
(***************************************************************************)
CreateHotelWide ==
    \E n \in TypedStrArgs(HotelNames), l \in TypedStrArgs(WideLocations),
       t \in TypedRoomArgs :
        CreateHotelCall(n, l, t)

ModifyHotelWide ==
    \E n \in StrArgs(HotelNames), nn \in OptTypedStrArgs(HotelNames),
       l \in OptTypedStrArgs(WideLocations), t \in OptTypedRoomArgs :
        ModifyHotelCall(n, nn, l, t)

NextHotels ==
    \/ CreateHotelWide
    \/ DeleteHotel
    \/ DisplayHotel
    \/ ModifyHotelWide
    \/ ReserveRoom
    \/ CancelRoom

SpecHotels == Init /\ [][NextHotels]_vars

(***************************************************************************)
(* The customer store alone, with two ids, names and emails and arguments  *)
(* of every type.                                                          *)
(***************************************************************************)
CreateCustomerWide ==
    \E id \in TypedStrArgs(WideCustomerIds),
       n \in TypedStrArgs(WideCustomerNames),
       e \in TypedStrArgs(WideEmails) :
        CreateCustomerCall(id, n, e)

DeleteCustomerWide ==
    \E id \in KeyArgs(WideCustomerIds) : DeleteCustomerCall(id)

DisplayCustomerWide ==
    \E id \in KeyArgs(WideCustomerIds) : DisplayCustomerCall(id)

ModifyCustomerWide ==
    \E id \in KeyArgs(WideCustomerIds),
       n \in OptTypedStrArgs(WideCustomerNames),
       e \in OptTypedStrArgs(WideEmails) :
        ModifyCustomerCall(id, n, e)

NextCustomers ==
    \/ CreateCustomerWide
    \/ DeleteCustomerWide
    \/ DisplayCustomerWide
    \/ ModifyCustomerWide

SpecCustomers == Init /\ [][NextCustomers]_vars

(***************************************************************************)
(* The calls on files that something else may have overwritten.            *)
(***************************************************************************)
\* something other than the program writes a file, or removes it
DamageFile ==
    \E f \in Files, d \in DamageKinds :
        /\ damaged' = [damaged EXCEPT ![f] = d]
        /\ customers' = IF f = "customers" THEN EmptyStore ELSE customers
        /\ hotels' = IF f = "hotels" THEN EmptyStore ELSE hotels
        /\ reservations' =
               IF f = "reservations" THEN EmptyStore ELSE reservations
        /\ last' = [op |-> "write_file", kind |-> "ok"]
        /\ UNCHANGED <<protocolOnly, holdsKept, roundtrip, procs>>

LoadCustomers ==
    LET ld == load_customers(customers, damaged.customers)
    IN  /\ last' = [op |-> "_load_customers",
                    kind |-> IF ld.err = OK THEN "ok" ELSE ld.err]
        /\ UNCHANGED <<customers, hotels, reservations, protocolOnly,
                       holdsKept, damaged, roundtrip, procs>>

LoadHotels ==
    LET ld == load_hotels(hotels, damaged.hotels)
    IN  /\ last' = [op |-> "_load_hotels",
                    kind |-> IF ld.err = OK THEN "ok" ELSE ld.err]
        /\ UNCHANGED <<customers, hotels, reservations, protocolOnly,
                       holdsKept, damaged, roundtrip, procs>>

LoadReservations ==
    LET ld == load_reservations(reservations, damaged.reservations)
    IN  /\ last' = [op |-> "_load_reservations",
                    kind |-> IF ld.err = OK THEN "ok" ELSE ld.err]
        /\ UNCHANGED <<customers, hotels, reservations, protocolOnly,
                       holdsKept, damaged, roundtrip, procs>>

\* create_customer tests its arguments, then loads, then tests the id, then
\* saves: the save leaves the dump of a mapping in the file
CreateCustomerOnFile ==
    \E id \in StrArgs(CustomerIds), n \in StrArgs(CustomerNames),
       e \in StrArgs(Emails) :
        LET ld == load_customers(customers, damaged.customers)
            r == create_customer(ld.data, id, n, e)
            raised == IF create_customer(EmptyStore, id, n, e).err # OK
                      THEN Kind(r.err)
                      ELSE IF ld.err # OK THEN ld.err ELSE Kind(r.err)
        IN  /\ last' = [op |-> "create_customer", kind |-> raised]
            /\ customers' = IF raised = "ok" THEN r.customers ELSE customers
            /\ damaged' = IF raised = "ok"
                          THEN [damaged EXCEPT !.customers = "none"]
                          ELSE damaged
            /\ UNCHANGED <<hotels, reservations, protocolOnly, holdsKept,
                           roundtrip, procs>>

CreateHotelOnFileCall(n, l, t) ==
    LET ld == load_hotels(hotels, damaged.hotels)
        r == create_hotel(ld.data, n, l, t)
        raised == IF create_hotel(EmptyStore, n, l, t).err # OK
                  THEN Kind(r.err)
                  ELSE IF ld.err # OK THEN ld.err ELSE Kind(r.err)
    IN  /\ last' = [op |-> "create_hotel", kind |-> raised]
        /\ hotels' = IF raised = "ok" THEN r.hotels ELSE hotels
        /\ damaged' = IF raised = "ok"
                      THEN [damaged EXCEPT !.hotels = "none"]
                      ELSE damaged
        /\ UNCHANGED <<customers, reservations, protocolOnly, holdsKept,
                       roundtrip, procs>>

CreateHotelOnFile ==
    \E n \in StrArgs(HotelNames), l \in StrArgs(Locations), t \in RoomArgs :
        CreateHotelOnFileCall(n, l, t)

\* create_reservation loads the customers, then the hotels, has reserve_room
\* load and save the hotels, and only then loads the reservations: when that
\* load raises, the room is already counted
CreateReservationOnFile ==
    \E c \in StrArgs(CustomerIds), h \in StrArgs(HotelNames),
       id \in ReservationIds :
        LET lc == load_customers(customers, damaged.customers)
            lh == load_hotels(hotels, damaged.hotels)
            lr == load_reservations(reservations, damaged.reservations)
            r == create_reservation(lc.data, lh.data, lr.data, c, h, id)
            raised == IF lc.err # OK THEN lc.err
                      ELSE IF ~In(c, lc.data) THEN Kind(r.err)
                      ELSE IF lh.err # OK THEN lh.err
                      ELSE IF r.err # OK THEN Kind(r.err)
                      ELSE IF lr.err # OK THEN lr.err
                      ELSE "ok"
            reserved == lc.err = OK /\ lh.err = OK /\ r.err = OK
        IN  /\ last' = [op |-> "create_reservation", kind |-> raised]
            /\ hotels' = IF reserved THEN r.hotels ELSE hotels
            /\ reservations' =
                   IF raised = "ok" THEN r.reservations ELSE reservations
            /\ damaged' = IF raised = "ok"
                          THEN [damaged EXCEPT !.reservations = "none"]
                          ELSE damaged
            /\ UNCHANGED <<customers, protocolOnly, holdsKept, roundtrip,
                           procs>>

NextFiles ==
    \/ DamageFile
    \/ LoadCustomers
    \/ LoadHotels
    \/ LoadReservations
    \/ CreateCustomerOnFile
    \/ CreateHotelOnFile
    \/ CreateReservationOnFile

SpecFiles == Init /\ [][NextFiles]_vars

\* one customer and the hotels, created and modified field by field, with
\* two values for each field
CreateCustomerFields ==
    \E id \in StrArgs(CustomerIds), n \in StrArgs(WideCustomerNames),
       e \in StrArgs(WideEmails) :
        CreateCustomerCall(id, n, e)

ModifyCustomerFields ==
    \E id \in StrArgs(CustomerIds), n \in OptStrArgs(WideCustomerNames),
       e \in OptStrArgs(WideEmails) :
        ModifyCustomerCall(id, n, e)

CreateHotelFields ==
    \E n \in StrArgs(HotelNames), l \in StrArgs(WideLocations),
       t \in RoomArgs :
        CreateHotelCall(n, l, t)

ModifyHotelFields ==
    \E n \in StrArgs(HotelNames), nn \in {None, Str("")},
       l \in OptStrArgs(WideLocations), t \in OptRoomArgs :
        ModifyHotelCall(n, nn, l, t)

NextModify ==
    \/ CreateCustomerFields
    \/ ModifyCustomerFields
    \/ CreateHotelFields
    \/ ModifyHotelFields
    \/ ReserveRoom

SpecModify == Init /\ [][NextModify]_vars

(***************************************************************************)
(* The serializations of the tests: an object is built, to_dict gives its  *)
(* mapping and from_dict an object again.  The constructors test nothing,  *)
(* so the fields are any strings, the empty one included.                  *)
(***************************************************************************)
CustomerRoundTrip ==
    \E id \in WideCustomerIds \cup {""}, n \in WideCustomerNames \cup {""},
       e \in WideEmails \cup {""} :
        LET self == Customer(id, n, e)
            data == Customer_to_dict(self)
        IN  /\ roundtrip' = [self |-> self, data |-> data,
                             back |-> Customer_from_dict(data)]
            /\ last' = [op |-> "Customer.from_dict", kind |-> "ok"]
            /\ UNCHANGED <<customers, hotels, reservations, protocolOnly,
                           holdsKept, damaged, procs>>

\* the test sets reserved_rooms on the object before it serializes it
HotelRoundTrip ==
    \E n \in HotelNames \cup {""}, l \in WideLocations \cup {""},
       t \in TypedRoomArgs, r \in 0 .. MaxRooms :
        LET self == [Hotel(n, l, t) EXCEPT !.reserved_rooms = r]
            data == Hotel_to_dict(self)
        IN  /\ roundtrip' = [self |-> self, data |-> data,
                             back |-> Hotel_from_dict(data)]
            /\ last' = [op |-> "Hotel.from_dict", kind |-> "ok"]
            /\ UNCHANGED <<customers, hotels, reservations, protocolOnly,
                           holdsKept, damaged, procs>>

\* a mapping of an older version, written without the reserved_rooms key
HotelFromLegacyDict ==
    \E n \in HotelNames \cup {""}, l \in WideLocations \cup {""},
       t \in TypedRoomArgs :
        LET data == [name |-> n, location |-> l, total_rooms |-> t]
        IN  /\ roundtrip' = [self |-> NoObject, data |-> data,
                             back |-> Hotel_from_dict(data)]
            /\ last' = [op |-> "Hotel.from_dict", kind |-> "ok"]
            /\ UNCHANGED <<customers, hotels, reservations, protocolOnly,
                           holdsKept, damaged, procs>>

ReservationRoundTrip ==
    \E id \in ReservationIds \cup {""}, c \in WideCustomerIds \cup {""},
       h \in HotelNames \cup {""} :
        LET self == Reservation(id, c, h)
            data == Reservation_to_dict(self)
        IN  /\ roundtrip' = [self |-> self, data |-> data,
                             back |-> Reservation_from_dict(data)]
            /\ last' = [op |-> "Reservation.from_dict", kind |-> "ok"]
            /\ UNCHANGED <<customers, hotels, reservations, protocolOnly,
                           holdsKept, damaged, procs>>

NextRecords ==
    \/ CustomerRoundTrip
    \/ HotelRoundTrip
    \/ HotelFromLegacyDict
    \/ ReservationRoundTrip

SpecRecords == Init /\ [][NextRecords]_vars

(***************************************************************************)
(* The calls step by step.  Each read of a file is a step of its own and   *)
(* each save is two: the open with "w", which empties the file, and the    *)
(* dump, which reaches the file when the with statement closes it.  What a *)
(* call does in memory between two of them belongs to the step of the      *)
(* read.  The files here are written by the program alone, so that no load *)
(* raises: a file of no bytes and a file with the rest of another text     *)
(* after the dump are loaded as {}.                                        *)
(***************************************************************************)
\* what _load_hotels and _load_reservations return
HotelsRead == load_hotels(hotels, damaged.hotels).data
ReservationsRead == load_reservations(reservations, damaged.reservations).data

NoCallUnderWay ==
    \A p \in Procs : procs[p].pc \in {"idle", "done", "interrupted"}

\* whole calls that set the scene, made while no other call is under way; the
\* hotel file may be one that a stopped or an overtaken save has left
SeedCustomer ==
    /\ NoCallUnderWay
    /\ \E id \in CustomerIds, n \in CustomerNames, e \in Emails :
           CreateCustomerCall(Str(id), Str(n), Str(e))

SeedHotel ==
    /\ NoCallUnderWay
    /\ \E n \in HotelNames, l \in Locations, t \in 1 .. MaxRooms :
           CreateHotelOnFileCall(Str(n), Str(l), PyInt(t))

\* the one hotel that the two processes reserve at
SeedRacedHotel ==
    /\ NoCallUnderWay
    /\ \E l \in Locations, t \in 1 .. MaxRooms :
           CreateHotelOnFileCall(Str(RacedHotel), Str(l), PyInt(t))

\* the call of process p begins; the two files as they are then are kept
\* for a create_reservation and a cancel_reservation
Begin(p, op, customer_id, name, id, pc) ==
    LET kept == op \in {"create_reservation", "cancel_reservation"}
    IN  /\ procs[p].pc \in {"idle", "done", "interrupted"}
        /\ procs' =
               [procs EXCEPT ![p] =
                   [IdleProc EXCEPT
                       !.pc = pc, !.op = op, !.customer_id = customer_id,
                       !.name = name, !.id = id,
                       !.h0 = IF kept THEN hotels ELSE EmptyStore,
                       !.r0 = IF kept THEN reservations ELSE EmptyStore]]
        /\ UNCHANGED <<customers, hotels, reservations, last, protocolOnly,
                       holdsKept, damaged, roundtrip>>

BeginReserveRoom(p, names) ==
    \E n \in names :
        Begin(p, "reserve_room", None, Str(n), None, "reserve_room: load")

BeginCreateReservation(p, names) ==
    \E c \in StrArgs(CustomerIds), h \in names :
        Begin(p, "create_reservation", c, Str(h), None,
              "create_reservation: load customers")

BeginCancelReservation(p) ==
    \E id \in StrArgs(ReservationIds) :
        Begin(p, "cancel_reservation", None, None, id,
              "cancel_reservation: load reservations")

\* the call of process p ends, raising err or returning: its memory is gone;
\* of a reserve_room and a create_reservation procs[p] keeps the call, the
\* hotel, the counter it loaded and the outcome
Return(p, err) ==
    /\ procs' = [procs EXCEPT ![p] =
                     IF procs[p].op \in {"reserve_room", "create_reservation"}
                     THEN [IdleProc EXCEPT !.pc = "done", !.op = procs[p].op,
                                          !.name = procs[p].name,
                                          !.seen = procs[p].seen,
                                          !.ret = err]
                     ELSE [IdleProc EXCEPT !.pc = "done"]]
    /\ UNCHANGED last

\* create_reservation: customers = _load_customers() and the test
CreateReservationLoadCustomers(p) ==
    /\ procs[p].pc = "create_reservation: load customers"
    /\ IF ~In(procs[p].customer_id, customers)
       THEN Return(p, "Customer not found")
       ELSE /\ procs' = [procs EXCEPT
                            ![p].pc = "create_reservation: load hotels"]
            /\ UNCHANGED last
    /\ UNCHANGED <<customers, hotels, reservations, protocolOnly, holdsKept,
                   damaged, roundtrip>>

\* create_reservation: hotels = _load_hotels() and the test
CreateReservationLoadHotels(p) ==
    /\ procs[p].pc = "create_reservation: load hotels"
    /\ IF ~In(procs[p].name, HotelsRead)
       THEN Return(p, "Hotel not found")
       ELSE /\ procs' = [procs EXCEPT ![p].pc = "reserve_room: load"]
            /\ UNCHANGED last
    /\ UNCHANGED <<customers, hotels, reservations, protocolOnly, holdsKept,
                   damaged, roundtrip>>

\* reserve_room: hotels = _load_hotels(), the two tests and the increment
\* in memory
ReserveRoomLoad(p) ==
    /\ procs[p].pc = "reserve_room: load"
    /\ LET r == reserve_room(HotelsRead, procs[p].name)
       IN  IF r.err # OK
           THEN Return(p, r.err)
           ELSE /\ procs' = [procs EXCEPT
                                ![p].pc = "reserve_room: save",
                                ![p].hs = r.hotels,
                                ![p].seen =
                                    Get(HotelsRead[procs[p].name.val],
                                        "reserved_rooms", 0)]
                /\ UNCHANGED last
    /\ UNCHANGED <<customers, hotels, reservations, protocolOnly, holdsKept,
                   damaged, roundtrip>>

\* _save_hotels, its open(HOTELS_FILE, "w"): the file has no bytes until the
\* dump is written
SaveHotelsOpen(p) ==
    /\ procs[p].pc \in HotelSaves
    /\ hotels' = Truncated.data
    /\ damaged' = [damaged EXCEPT !.hotels = Truncated.dmg]
    /\ procs' = [procs EXCEPT ![p].pc = Opened(procs[p].pc)]
    /\ UNCHANGED <<customers, reservations, last, protocolOnly, holdsKept,
                   roundtrip>>

\* _save_reservations, its open(RESERVATIONS_FILE, "w")
SaveReservationsOpen(p) ==
    /\ procs[p].pc \in ReservationSaves
    /\ reservations' = Truncated.data
    /\ damaged' = [damaged EXCEPT !.reservations = Truncated.dmg]
    /\ procs' = [procs EXCEPT ![p].pc = Opened(procs[p].pc)]
    /\ UNCHANGED <<customers, hotels, last, protocolOnly, holdsKept,
                   roundtrip>>

\* the process p writes the hotel file, the reservation file: the dump of
\* the mapping in memory goes to the file that p has opened.  Over
\* characters that are no JSON document the dump stands alone when it is no
\* shorter than they are, and is followed by their rest when it is shorter:
\* json.load returns the mapping when the rest is blank, and refuses the
\* text when it is not.  These two are what Stored keeps of the save over
\* the files of Held for the kind "text", which are too many to go through.
WriteHotels(p, hs) ==
    \E w \in IF damaged.hotels = "text"
             THEN {[data |-> hs, dmg |-> "none"],
                   [data |-> EmptyStore, dmg |-> "text"]}
             ELSE UNION {LET text == json_dump(hs, ks)
                         IN  {Stored(save_hotels(f, f.there, hs, ks), hs,
                                     text) :
                                 f \in Held(hotels, damaged.hotels)} :
                         ks \in Orders(DOMAIN hs)} :
        /\ hotels' = w.data
        /\ damaged' = [damaged EXCEPT !.hotels = w.dmg]

WriteReservations(p, rs) ==
    \E w \in IF damaged.reservations = "text"
             THEN {[data |-> rs, dmg |-> "none"],
                   [data |-> EmptyStore, dmg |-> "text"]}
             ELSE UNION {LET text == json_dump(rs, ks)
                         IN  {Stored(save_reservations(f, f.there, rs, ks),
                                     rs, text) :
                                 f \in Held(reservations,
                                            damaged.reservations)} :
                         ks \in Orders(DOMAIN rs)} :
        /\ reservations' = w.data
        /\ damaged' = [damaged EXCEPT !.reservations = w.dmg]

\* the dump of reserve_room left out: create_reservation goes on to the
\* reservations with the hotel file as the open left it
ReserveRoomSave_Skipped(p) ==
    /\ procs[p].pc = "reserve_room: dump"
    /\ hotels' = hotels
    /\ IF procs[p].op = "reserve_room"
       THEN Return(p, OK) /\ protocolOnly' = FALSE
       ELSE /\ procs' = [procs EXCEPT
                            ![p].pc = "create_reservation: load reservations"]
            /\ UNCHANGED <<last, protocolOnly>>
    /\ UNCHANGED <<customers, reservations, holdsKept, damaged, roundtrip>>

\* reserve_room: _save_hotels(hotels), its dump and close; a direct call
\* returns, a create_reservation goes on
ReserveRoomSave(p) ==
    /\ procs[p].pc = "reserve_room: dump"
    /\ WriteHotels(p, procs[p].hs)
    /\ IF procs[p].op = "reserve_room"
       THEN Return(p, OK) /\ protocolOnly' = FALSE
       ELSE /\ procs' = [procs EXCEPT
                            ![p].pc = "create_reservation: load reservations"]
            /\ UNCHANGED <<last, protocolOnly>>
    /\ UNCHANGED <<customers, reservations, holdsKept, roundtrip>>

\* create_reservation: the id is generated, reservations =
\* _load_reservations() and the record is added in memory
CreateReservationLoadReservations(p) ==
    /\ procs[p].pc = "create_reservation: load reservations"
    /\ \E id \in ReservationIds :
           /\ procs' = [procs EXCEPT
                            ![p].pc = "create_reservation: save reservations",
                            ![p].id = Str(id),
                            ![p].rs =
                                Put(ReservationsRead, id,
                                    ReservationToDict(
                                        id, procs[p].customer_id.val,
                                        procs[p].name.val))]
           /\ protocolOnly' =
                  (protocolOnly /\ id \notin DOMAIN ReservationsRead)
    /\ UNCHANGED <<customers, hotels, reservations, last, holdsKept, damaged,
                   roundtrip>>

\* create_reservation: _save_reservations(reservations), its dump and close,
\* and the return
CreateReservationSaveReservations(p) ==
    /\ procs[p].pc = "create_reservation: dump reservations"
    /\ WriteReservations(p, procs[p].rs)
    /\ Return(p, OK)
    /\ UNCHANGED <<customers, hotels, protocolOnly, holdsKept, roundtrip>>

\* cancel_reservation: reservations = _load_reservations(), the test and
\* r = reservations[reservation_id]
CancelReservationLoadReservations(p) ==
    /\ procs[p].pc = "cancel_reservation: load reservations"
    /\ IF ~In(procs[p].id, ReservationsRead)
       THEN Return(p, "Reservation not found")
       ELSE /\ procs' = [procs EXCEPT
                            ![p].pc = "cancel_room: load",
                            ![p].rs = ReservationsRead,
                            ![p].name =
                                Str(ReservationsRead[procs[p].id.val]
                                        .hotel_name)]
            /\ UNCHANGED last
    /\ UNCHANGED <<customers, hotels, reservations, protocolOnly, holdsKept,
                   damaged, roundtrip>>

\* cancel_room: hotels = _load_hotels(), the two tests and the decrement in
\* memory
CancelRoomLoad(p) ==
    /\ procs[p].pc = "cancel_room: load"
    /\ LET r == cancel_room(HotelsRead, procs[p].name)
       IN  IF r.err # OK
           THEN Return(p, r.err)
           ELSE /\ procs' = [procs EXCEPT
                                ![p].pc = "cancel_room: save",
                                ![p].hs = r.hotels,
                                ![p].seen =
                                    Get(HotelsRead[procs[p].name.val],
                                        "reserved_rooms", 0)]
                /\ UNCHANGED last
    /\ UNCHANGED <<customers, hotels, reservations, protocolOnly, holdsKept,
                   damaged, roundtrip>>

\* cancel_room that saves when the record is removed: the two writes of
\* cancel_reservation in one step
CancelRoomSave_WithRecord(p) ==
    /\ procs[p].pc = "cancel_room: dump"
    /\ hotels' = procs[p].hs
    /\ reservations' = Del(procs[p].rs, procs[p].id.val)
    /\ damaged' = [damaged EXCEPT !.hotels = "none", !.reservations = "none"]
    /\ procs' = [procs EXCEPT
                     ![p].pc = "cancel_reservation: save reservations"]
    /\ UNCHANGED <<customers, last, protocolOnly, holdsKept, roundtrip>>

\* cancel_room: _save_hotels(hotels), its dump and close; a direct call
\* returns, a cancel_reservation goes on
CancelRoomSave(p) ==
    /\ procs[p].pc = "cancel_room: dump"
    /\ WriteHotels(p, procs[p].hs)
    /\ IF procs[p].op = "cancel_room"
       THEN Return(p, OK) /\ protocolOnly' = FALSE /\ holdsKept' = FALSE
       ELSE /\ procs' = [procs EXCEPT
                            ![p].pc = "cancel_reservation: save reservations"]
            /\ UNCHANGED <<last, protocolOnly, holdsKept>>
    /\ UNCHANGED <<customers, reservations, roundtrip>>

\* cancel_reservation: del reservations[reservation_id] on the mapping loaded
\* at the start, which is done before the save, then the dump and close of
\* _save_reservations(reservations) and the return
CancelReservationSaveReservations(p) ==
    /\ procs[p].pc = "cancel_reservation: dump reservations"
    /\ WriteReservations(p, Del(procs[p].rs, procs[p].id.val))
    /\ Return(p, OK)
    /\ UNCHANGED <<customers, hotels, protocolOnly, holdsKept, roundtrip>>

\* the mapping that the process p is dumping
Dumping(p) ==
    IF procs[p].pc \in HotelDumps THEN procs[p].hs
    ELSE IF procs[p].pc = "cancel_reservation: dump reservations"
    THEN Del(procs[p].rs, procs[p].id.val)
    ELSE procs[p].rs

\* where the call stands once the dump of the step pc is written and the
\* file closed: at its next step, or at its return
Written(pc, op) ==
    CASE pc = "reserve_room: dump" /\ op = "create_reservation" ->
             "create_reservation: load reservations"
      [] pc = "reserve_room: dump" /\ op # "create_reservation" ->
             "reserve_room: return"
      [] pc = "cancel_room: dump" /\ op = "cancel_reservation" ->
             "cancel_reservation: save reservations"
      [] pc = "cancel_room: dump" /\ op # "cancel_reservation" ->
             "cancel_room: return"
      [] pc = "create_hotel: dump" -> "create_hotel: return"
      [] pc = "modify_hotel: dump" -> "modify_hotel: return"
      [] pc = "delete_hotel: dump" -> "delete_hotel: return"
      [] pc = "create_reservation: dump reservations" ->
             "create_reservation: return"
      [] pc = "cancel_reservation: dump reservations" ->
             "cancel_reservation: return"

\* what a process stopped inside the with statement of a save can leave at
\* the path, chunks being the pieces of its dump: the file as it is, when
\* the process is killed, or stopped before json.dump wrote a piece; the
\* first pieces, when an exception such as KeyboardInterrupt leaves
\* json.dump between two of them and the with statement closes the file;
\* the whole dump, when the stop comes after the last piece and the close.
\* The pieces are written at the start of the file as a whole dump is: over
\* the text of another writer they are followed by the rest of that text,
\* which can make a JSON document of the two.
StoppedInDump(path, held, chunks) ==
    LET RECURSIVE Texts(_)
        Texts(k) ==
            IF k = 0
            THEN <<"">>
            ELSE LET t == Texts(k - 1) IN Append(t, t[k] \o chunks[k])
        written == Texts(Len(chunks))
    IN  {[path |-> WriteAtStart(path, held, written[k + 1]),
          whole |-> k = Len(chunks)] : k \in 0 .. Len(chunks)}

\* the process is stopped in its call: before the step that comes next, or
\* inside the save whose file it has opened.  The pieces that it has written
\* go over a file of Held; over characters that are no JSON document they
\* leave a text that depends on those characters, one for each such file.
Interrupt(p) ==
    LET Left(store, dmg) ==
            UNION {LET chunks == Chunks(Dumping(p), ks)
                       text == Prefix(chunks, Len(chunks))
                   IN  {[file |-> Stored(o.path, Dumping(p), text),
                         whole |-> o.whole] :
                            o \in StoppedInDump(f, f.there, chunks)} :
                      f \in Held(store, dmg),
                      ks \in Orders(DOMAIN Dumping(p))}
        Stopped(whole) ==
            [procs EXCEPT ![p].pc = "interrupted",
                          ![p].at = IF whole
                                    THEN Written(procs[p].pc, procs[p].op)
                                    ELSE procs[p].pc]
    IN  /\ procs[p].pc \notin {"idle", "done", "interrupted"}
        /\ last' = [op |-> procs[p].op, kind |-> "interrupted"]
        /\ IF procs[p].pc \in HotelDumps
           THEN \E w \in Left(hotels, damaged.hotels) :
                    /\ hotels' = w.file.data
                    /\ damaged' = [damaged EXCEPT !.hotels = w.file.dmg]
                    /\ procs' = Stopped(w.whole)
                    /\ protocolOnly' =
                           (protocolOnly
                               /\ ~(w.whole
                                      /\ procs[p].op \in
                                             {"reserve_room", "cancel_room",
                                              "modify_hotel",
                                              "delete_hotel"}))
                    /\ holdsKept' =
                           (holdsKept
                               /\ ~(w.whole
                                      /\ \/ procs[p].op \in
                                                {"cancel_room", "delete_hotel"}
                                         \/ /\ procs[p].op = "modify_hotel"
                                            /\ procs[p].name.val
                                                   \notin DOMAIN Dumping(p)))
                    /\ UNCHANGED reservations
           ELSE IF procs[p].pc \in ReservationDumps
           THEN \E w \in Left(reservations, damaged.reservations) :
                    /\ reservations' = w.file.data
                    /\ damaged' = [damaged EXCEPT
                                       !.reservations = w.file.dmg]
                    /\ procs' = Stopped(w.whole)
                    /\ UNCHANGED <<hotels, protocolOnly, holdsKept>>
           ELSE /\ procs' = Stopped(FALSE)
                /\ UNCHANGED <<hotels, reservations, protocolOnly, holdsKept,
                               damaged>>
        /\ UNCHANGED <<customers, roundtrip>>

\* two processes reserve, their steps in any order
NextInterleaved ==
    \/ SeedCustomer
    \/ SeedRacedHotel
    \/ \E p \in Procs :
           \/ BeginReserveRoom(p, {RacedHotel})
           \/ BeginCreateReservation(p, {RacedHotel})
           \/ CreateReservationLoadCustomers(p)
           \/ CreateReservationLoadHotels(p)
           \/ ReserveRoomLoad(p)
           \/ SaveHotelsOpen(p)
           \/ ReserveRoomSave(p)
           \/ CreateReservationLoadReservations(p)
           \/ SaveReservationsOpen(p)
           \/ CreateReservationSaveReservations(p)

SpecInterleaved == Init /\ [][NextInterleaved]_vars

\* one process makes and cancels reservations and may be stopped at any step
NextInterrupted ==
    \/ SeedCustomer
    \/ SeedHotel
    \/ BeginCreateReservation("p1", HotelNames \cup {""})
    \/ CreateReservationLoadCustomers("p1")
    \/ CreateReservationLoadHotels("p1")
    \/ ReserveRoomLoad("p1")
    \/ SaveHotelsOpen("p1")
    \/ ReserveRoomSave("p1")
    \/ CreateReservationLoadReservations("p1")
    \/ SaveReservationsOpen("p1")
    \/ CreateReservationSaveReservations("p1")
    \/ BeginCancelReservation("p1")
    \/ CancelReservationLoadReservations("p1")
    \/ CancelRoomLoad("p1")
    \/ CancelRoomSave("p1")
    \/ CancelReservationSaveReservations("p1")
    \/ Interrupt("p1")

SpecInterrupted == Init /\ [][NextInterrupted]_vars

(***************************************************************************)
(* The calls of hotel.py step by step.  The arguments other than the name  *)
(* are drawn at the step of the read, where the code first uses them with  *)
(* the loaded mapping.                                                     *)
(***************************************************************************)
BeginCreateHotel(p, names) ==
    \E n \in names :
        Begin(p, "create_hotel", None, Str(n), None, "create_hotel: load")

BeginModifyHotel(p, names) ==
    \E n \in names :
        Begin(p, "modify_hotel", None, Str(n), None, "modify_hotel: load")

BeginDeleteHotel(p, names) ==
    \E n \in names :
        Begin(p, "delete_hotel", None, Str(n), None, "delete_hotel: load")

BeginCancelRoom(p, names) ==
    \E n \in names :
        Begin(p, "cancel_room", None, Str(n), None, "cancel_room: load")

\* create_hotel: the tests of the arguments, hotels = _load_hotels(), the
\* test of the name and the insert in memory
CreateHotelLoad(p) ==
    /\ procs[p].pc = "create_hotel: load"
    /\ \E l \in StrArgs(Locations), t \in RoomArgs :
           LET r == create_hotel(HotelsRead, procs[p].name, l, t)
           IN  IF r.err # OK
               THEN Return(p, r.err)
               ELSE /\ procs' = [procs EXCEPT
                                    ![p].pc = "create_hotel: save",
                                    ![p].hs = r.hotels]
                    /\ UNCHANGED last
    /\ UNCHANGED <<customers, hotels, reservations, protocolOnly, holdsKept,
                   damaged, roundtrip>>

\* create_hotel: _save_hotels(hotels), its dump and close, and the return
CreateHotelSave(p) ==
    /\ procs[p].pc = "create_hotel: dump"
    /\ WriteHotels(p, procs[p].hs)
    /\ Return(p, OK)
    /\ UNCHANGED <<customers, reservations, protocolOnly, holdsKept,
                   roundtrip>>

\* modify_hotel: hotels = _load_hotels(), the tests and the changes in memory
ModifyHotelLoad(p) ==
    /\ procs[p].pc = "modify_hotel: load"
    /\ \E nn \in OptStrArgs(HotelNames), l \in OptStrArgs(Locations),
          t \in OptRoomArgs :
           LET r == modify_hotel(HotelsRead, procs[p].name, nn, l, t)
           IN  IF r.err # OK
               THEN Return(p, r.err)
               ELSE /\ procs' = [procs EXCEPT
                                    ![p].pc = "modify_hotel: save",
                                    ![p].hs = r.hotels]
                    /\ UNCHANGED last
    /\ UNCHANGED <<customers, hotels, reservations, protocolOnly, holdsKept,
                   damaged, roundtrip>>

\* modify_hotel that writes total_rooms of its hotel into the mapping that
\* the file holds, and not the mapping in memory
ModifyHotelSave_Patch(p) ==
    /\ procs[p].pc = "modify_hotel: dump"
    /\ LET n == procs[p].name.val
       IN  IF n \in DOMAIN hotels /\ n \in DOMAIN procs[p].hs
           THEN /\ hotels' =
                       [hotels EXCEPT
                           ![n].total_rooms = procs[p].hs[n].total_rooms]
                /\ UNCHANGED damaged
           ELSE WriteHotels(p, procs[p].hs)
    /\ protocolOnly' = FALSE
    /\ holdsKept' = (holdsKept /\ procs[p].name.val \in DOMAIN procs[p].hs)
    /\ Return(p, OK)
    /\ UNCHANGED <<customers, reservations, roundtrip>>

\* modify_hotel: _save_hotels(hotels), its dump and close, and the return
ModifyHotelSave(p) ==
    /\ procs[p].pc = "modify_hotel: dump"
    /\ WriteHotels(p, procs[p].hs)
    /\ protocolOnly' = FALSE
    /\ holdsKept' = (holdsKept /\ procs[p].name.val \in DOMAIN procs[p].hs)
    /\ Return(p, OK)
    /\ UNCHANGED <<customers, reservations, roundtrip>>

\* delete_hotel: hotels = _load_hotels(), the test and the del in memory
DeleteHotelLoad(p) ==
    /\ procs[p].pc = "delete_hotel: load"
    /\ LET r == delete_hotel(HotelsRead, procs[p].name)
       IN  IF r.err # OK
           THEN Return(p, r.err)
           ELSE /\ procs' = [procs EXCEPT
                                ![p].pc = "delete_hotel: save",
                                ![p].hs = r.hotels]
                /\ UNCHANGED last
    /\ UNCHANGED <<customers, hotels, reservations, protocolOnly, holdsKept,
                   damaged, roundtrip>>

\* delete_hotel: _save_hotels(hotels), its dump and close, and the return
DeleteHotelSave(p) ==
    /\ procs[p].pc = "delete_hotel: dump"
    /\ WriteHotels(p, procs[p].hs)
    /\ protocolOnly' = FALSE
    /\ holdsKept' = FALSE
    /\ Return(p, OK)
    /\ UNCHANGED <<customers, reservations, roundtrip>>

\* the hotel operations of two processes on one hotel, their steps in any
\* order
NextHotelRace ==
    \E p \in Procs :
        \/ BeginCreateHotel(p, {RacedHotel})
        \/ CreateHotelLoad(p)
        \/ SaveHotelsOpen(p)
        \/ CreateHotelSave(p)
        \/ BeginModifyHotel(p, {RacedHotel})
        \/ ModifyHotelLoad(p)
        \/ ModifyHotelSave(p)
        \/ BeginDeleteHotel(p, {RacedHotel})
        \/ DeleteHotelLoad(p)
        \/ DeleteHotelSave(p)
        \/ BeginReserveRoom(p, {RacedHotel})
        \/ ReserveRoomLoad(p)
        \/ ReserveRoomSave(p)
        \/ BeginCancelRoom(p, {RacedHotel})
        \/ CancelRoomLoad(p)
        \/ CancelRoomSave(p)

SpecHotelRace == Init /\ [][NextHotelRace]_vars

(***************************************************************************)
(* The reservation protocol alone: customers and hotels are created and    *)
(* reservations are made and cancelled, every call run to its end.  The id *)
(* that uuid4 gives create_reservation is one that is not a key of the     *)
(* reservation store.                                                      *)
(***************************************************************************)
CreateReservationFresh ==
    \E c \in StrArgs(CustomerIds), h \in StrArgs(HotelNames),
       id \in ReservationIds \ DOMAIN reservations :
        LET r == create_reservation(customers, hotels, reservations, c, h, id)
        IN  /\ hotels' = r.hotels
            /\ reservations' = r.reservations
            /\ last' = [op |-> "create_reservation", kind |-> Kind(r.err)]
            /\ UNCHANGED <<customers, protocolOnly, holdsKept, damaged,
                           roundtrip, procs>>

NextProtocol ==
    \/ CreateCustomer
    \/ CreateHotel
    \/ CreateReservationFresh
    \/ CancelReservation

SpecProtocol == Init /\ [][NextProtocol]_vars

TypeOK ==
    /\ DOMAIN customers \subseteq CustomerIds
    /\ DOMAIN hotels \subseteq HotelNames
    /\ DOMAIN reservations \subseteq ReservationIds
    /\ protocolOnly \in BOOLEAN
    /\ holdsKept \in BOOLEAN
    /\ damaged \in [Files -> FileKinds]

(***************************************************************************)
(* Properties.                                                             *)
(***************************************************************************)
\* the reservation records of store rs whose hotel_name is n
ReservationsAt(rs, n) == {id \in DOMAIN rs : rs[id].hotel_name = n}

\* C1: in every reachable state every hotel record has
\* 0 <= reserved_rooms <= total_rooms.
C1_ReservedWithinCapacity ==
    \A n \in DOMAIN hotels :
        /\ 0 <= hotels[n].reserved_rooms
        /\ hotels[n].reserved_rooms <= hotels[n].total_rooms.val

\* a full hotel has just refused one more room, next to an empty hotel
C1_Witness ==
    /\ last = [op |-> "reserve_room", kind |-> "CapacityExceeded"]
    /\ \E n \in DOMAIN hotels :
           hotels[n].reserved_rooms = hotels[n].total_rooms.val
    /\ \E n \in DOMAIN hotels : hotels[n].reserved_rooms = 0

\* C2 as stated: in every reachable state, for every hotel, reserved_rooms is
\* the number of reservation records that name the hotel.
C2_Original ==
    \A n \in DOMAIN hotels :
        hotels[n].reserved_rooms = Cardinality(ReservationsAt(reservations, n))

\* C2 amended: as long as the run has had no successful direct reserve_room
\* or cancel_room, no successful delete_hotel, no rename and no reservation
\* written under an id that was already a key, for every hotel reserved_rooms
\* is the number of reservation records that name the hotel.
C2_CountersMatchUnderProtocol ==
    protocolOnly =>
        \A n \in DOMAIN hotels :
            hotels[n].reserved_rooms =
                Cardinality(ReservationsAt(reservations, n))

\* a reservation was cancelled under the protocol while another is live
C2_Witness ==
    /\ protocolOnly
    /\ last = [op |-> "cancel_reservation", kind |-> "ok"]
    /\ \E n \in DOMAIN hotels : hotels[n].reserved_rooms = 1

\* the stores after the calls create_reservation(c, h) made one after the
\* other, the k-th of which draws the id ids[k]; oks counts the successes
RECURSIVE CreateAll(_, _, _, _, _, _)
CreateAll(cs, hs, rs, c, h, ids) ==
    IF ids = <<>>
    THEN [oks |-> 0, hotels |-> hs, reservations |-> rs]
    ELSE LET r == create_reservation(cs, hs, rs, c, h, Head(ids))
             rest == CreateAll(cs, r.hotels, r.reservations, c, h, Tail(ids))
         IN  [oks |-> rest.oks + (IF r.err = OK THEN 1 ELSE 0),
              hotels |-> rest.hotels, reservations |-> rest.reservations]

\* C3: for a hotel with no room reserved and total_rooms = N and an existing
\* customer, N create_reservation calls in a row all succeed and leave
\* reserved_rooms = N, and one more fails with CapacityExceeded.
C3_FillThenCapacityExceeded ==
    \A c \in KeyArgs(CustomerIds), h \in KeyArgs(HotelNames) :
        (In(c, customers) /\ In(h, hotels)
            /\ hotels[h.val].reserved_rooms = 0) =>
        LET N == hotels[h.val].total_rooms.val
        IN  \A ids \in [1 .. N -> ReservationIds] :
                LET f == CreateAll(customers, hotels, reservations, c, h, ids)
                IN  /\ f.oks = N
                    /\ f.hotels[h.val].reserved_rooms = N
                    /\ \A id \in ReservationIds :
                           Kind(create_reservation(customers, f.hotels,
                                    f.reservations, c, h, id).err)
                               = "CapacityExceeded"

\* a hotel of two rooms holds two reservations and has refused a third
C3_Witness ==
    /\ last = [op |-> "create_reservation", kind |-> "CapacityExceeded"]
    /\ \E n \in DOMAIN hotels :
           /\ hotels[n].total_rooms.val = 2
           /\ hotels[n].reserved_rooms = 2
           /\ Cardinality(ReservationsAt(reservations, n)) = 2

\* C4: a successful create_reservation(customer_id, hotel_name) adds exactly 1
\* to the reserved_rooms of the named hotel and stores, under the id of the
\* reservation it returns, a record with the given customer_id and hotel_name.
C4_CreateReservationEffect ==
    \A c \in KeyArgs(CustomerIds), h \in KeyArgs(HotelNames),
       id \in ReservationIds :
        LET r == create_reservation(customers, hotels, reservations, c, h, id)
        IN  r.err = OK =>
              /\ In(h, hotels)
              /\ r.hotels[h.val].reserved_rooms =
                     hotels[h.val].reserved_rooms + 1
              /\ r.ret.reservation_id \in DOMAIN r.reservations
              /\ r.reservations[r.ret.reservation_id] = r.ret
              /\ r.ret.customer_id = c.val
              /\ r.ret.hotel_name = h.val

\* a reservation was created at a hotel that already had a room reserved
C4_Witness ==
    /\ last = [op |-> "create_reservation", kind |-> "ok"]
    /\ \E id \in DOMAIN reservations :
           /\ reservations[id].hotel_name \in DOMAIN hotels
           /\ reservations[id].customer_id \in DOMAIN customers
           /\ hotels[reservations[id].hotel_name].reserved_rooms = 2

\* C5: create_reservation for an existing customer and an existing hotel with
\* reserved_rooms = total_rooms fails with the CapacityExceeded failure of
\* reserve_room, writes no reservation record and leaves the hotel store
\* unchanged.
C5_FullHotelRefused ==
    \A c \in KeyArgs(CustomerIds), h \in KeyArgs(HotelNames),
       id \in ReservationIds :
        (In(c, customers) /\ In(h, hotels)
            /\ hotels[h.val].reserved_rooms = hotels[h.val].total_rooms.val) =>
        LET r == create_reservation(customers, hotels, reservations, c, h, id)
        IN  /\ r.err = reserve_room(hotels, h).err
            /\ Kind(r.err) = "CapacityExceeded"
            /\ r.reservations = reservations
            /\ r.hotels = hotels

\* a full hotel has refused a reservation while no reservation is recorded
C5_Witness ==
    /\ last = [op |-> "create_reservation", kind |-> "CapacityExceeded"]
    /\ reservations = EmptyStore
    /\ \E n \in DOMAIN hotels :
           hotels[n].reserved_rooms = hotels[n].total_rooms.val

\* C6, the outcome: create_reservation fails with NotFound for the customer
\* when customer_id is not a key of the customer store (the hotel absent or
\* not, the arguments empty or not), and with NotFound for the hotel when the
\* customer exists and hotel_name is not a key of the hotel store; neither
\* the hotel store nor the reservation store is written.
C6_Outcome ==
    \A c \in KeyArgs(CustomerIds), h \in KeyArgs(HotelNames),
       id \in ReservationIds :
        LET r == create_reservation(customers, hotels, reservations, c, h, id)
        IN  /\ ~In(c, customers) =>
                  /\ r.err = "Customer not found"
                  /\ Kind(r.err) = "NotFound"
                  /\ r.hotels = hotels
                  /\ r.reservations = reservations
            /\ (In(c, customers) /\ ~In(h, hotels)) =>
                  /\ r.err = "Hotel not found"
                  /\ Kind(r.err) = "NotFound"
                  /\ r.hotels = hotels
                  /\ r.reservations = reservations

\* C6, the step: a create_reservation call that ends with NotFound leaves the
\* three stores as they were.
C6_Step ==
    (last' = [op |-> "create_reservation", kind |-> "NotFound"]) =>
        UNCHANGED <<customers, hotels, reservations>>

\* C6: create_reservation fails with NotFound when customer_id is not a key
\* of the customer store (checked first) and when hotel_name is not a key of
\* the hotel store, empty strings included; the three stores are unchanged.
C6_CreateReservationNotFound == []C6_Outcome /\ [][C6_Step]_vars

\* a reservation was refused for want of the customer, next to a hotel
C6_Witness ==
    /\ last = [op |-> "create_reservation", kind |-> "NotFound"]
    /\ customers = EmptyStore
    /\ hotels # EmptyStore

\* C7: a successful cancel_reservation(id) removes the record of that id and
\* no other, and takes exactly 1 from the reserved_rooms of the hotel the
\* record names; every other hotel and every other field is unchanged.
C7_CancelReservationEffect ==
    \A id \in KeyArgs(ReservationIds) :
        LET r == cancel_reservation(hotels, reservations, id)
        IN  r.err = OK =>
              /\ In(id, reservations)
              /\ r.reservations = Del(reservations, id.val)
              /\ LET n == reservations[id.val].hotel_name
                 IN  /\ n \in DOMAIN hotels
                     /\ r.hotels =
                            [hotels EXCEPT ![n].reserved_rooms = @ - 1]

\* a reservation was cancelled; another reservation and two rooms remain
C7_Witness ==
    /\ last = [op |-> "cancel_reservation", kind |-> "ok"]
    /\ reservations # EmptyStore
    /\ \E n \in DOMAIN hotels : hotels[n].reserved_rooms = 2

\* C8: cancel_reservation on an id that is not in the reservation store, one
\* that was just cancelled included, fails with NotFound and changes neither
\* the reservation store nor any hotel.
C8_CancelAbsentFails ==
    /\ \A id \in KeyArgs(ReservationIds) :
           ~In(id, reservations) =>
               LET r == cancel_reservation(hotels, reservations, id)
               IN  /\ Kind(r.err) = "NotFound"
                   /\ r.hotels = hotels
                   /\ r.reservations = reservations
    /\ \A id \in KeyArgs(ReservationIds) :
           LET r1 == cancel_reservation(hotels, reservations, id)
               r2 == cancel_reservation(r1.hotels, r1.reservations, id)
           IN  r1.err = OK =>
                   /\ Kind(r2.err) = "NotFound"
                   /\ r2.hotels = r1.hotels
                   /\ r2.reservations = r1.reservations

\* a cancellation failed with NotFound while a room is still reserved
C8_Witness ==
    /\ last = [op |-> "cancel_reservation", kind |-> "NotFound"]
    /\ reservations = EmptyStore
    /\ \E n \in DOMAIN hotels : hotels[n].reserved_rooms = 1

\* C9: reserve_room(name) fails with NotFound if the hotel is absent and with
\* CapacityExceeded if reserved_rooms = total_rooms, leaving the hotel store
\* unchanged; otherwise it adds exactly 1 to that hotel's reserved_rooms and
\* changes no other field and no other hotel.
C9_ReserveRoomContract ==
    \A n \in KeyArgs(HotelNames) :
        LET r == reserve_room(hotels, n)
        IN  IF ~In(n, hotels)
            THEN Kind(r.err) = "NotFound" /\ r.hotels = hotels
            ELSE IF hotels[n.val].reserved_rooms = hotels[n.val].total_rooms.val
            THEN Kind(r.err) = "CapacityExceeded" /\ r.hotels = hotels
            ELSE /\ r.err = OK
                 /\ r.hotels =
                        [hotels EXCEPT ![n.val].reserved_rooms = @ + 1]

\* a room was reserved at a hotel that is now full, next to another hotel
C9_Witness ==
    /\ last = [op |-> "reserve_room", kind |-> "ok"]
    /\ Cardinality(DOMAIN hotels) = 2
    /\ \E n \in DOMAIN hotels :
           hotels[n].reserved_rooms = hotels[n].total_rooms.val

\* C10: cancel_room(name) fails with NotFound if the hotel is absent and with
\* InvalidState if reserved_rooms = 0, leaving the hotel store unchanged;
\* otherwise it takes exactly 1 from that hotel's reserved_rooms.
C10_CancelRoomContract ==
    \A n \in KeyArgs(HotelNames) :
        LET r == cancel_room(hotels, n)
        IN  IF ~In(n, hotels)
            THEN Kind(r.err) = "NotFound" /\ r.hotels = hotels
            ELSE IF hotels[n.val].reserved_rooms = 0
            THEN Kind(r.err) = "InvalidState" /\ r.hotels = hotels
            ELSE /\ r.err = OK
                 /\ r.hotels =
                        [hotels EXCEPT ![n.val].reserved_rooms = @ - 1]

\* a room was released at a hotel that now has none reserved
C10_Witness ==
    /\ last = [op |-> "cancel_room", kind |-> "ok"]
    /\ \E n \in DOMAIN hotels :
           hotels[n].reserved_rooms = 0 /\ hotels[n].total_rooms.val = 2

\* the hotel store after k reserve_room(name) calls, and after k cancel_room
\* calls; oks counts the calls that succeeded
RECURSIVE ReserveTimes(_, _, _)
ReserveTimes(hs, name, k) ==
    IF k = 0
    THEN [oks |-> 0, hotels |-> hs]
    ELSE LET r == reserve_room(hs, name)
             rest == ReserveTimes(r.hotels, name, k - 1)
         IN  [oks |-> rest.oks + (IF r.err = OK THEN 1 ELSE 0),
              hotels |-> rest.hotels]

RECURSIVE CancelTimes(_, _, _)
CancelTimes(hs, name, k) ==
    IF k = 0
    THEN [oks |-> 0, hotels |-> hs]
    ELSE LET r == cancel_room(hs, name)
             rest == CancelTimes(r.hotels, name, k - 1)
         IN  [oks |-> rest.oks + (IF r.err = OK THEN 1 ELSE 0),
              hotels |-> rest.hotels]

\* C11: for an existing hotel with reserved_rooms < total_rooms, reserve_room
\* then cancel_room both succeed and give back the hotel store as it was; so
\* do k reserve_room calls followed by k cancel_room calls, for every k up to
\* the number of free rooms.
C11_ReserveThenCancelRestores ==
    \A n \in KeyArgs(HotelNames) :
        (In(n, hotels)
            /\ hotels[n.val].reserved_rooms < hotels[n.val].total_rooms.val) =>
        /\ LET r1 == reserve_room(hotels, n)
               r2 == cancel_room(r1.hotels, n)
           IN  r1.err = OK /\ r2.err = OK /\ r2.hotels = hotels
        /\ \A k \in 1 .. (hotels[n.val].total_rooms.val
                            - hotels[n.val].reserved_rooms) :
               LET up == ReserveTimes(hotels, n, k)
                   down == CancelTimes(up.hotels, n, k)
               IN  /\ up.oks = k
                   /\ up.hotels[n.val].reserved_rooms =
                          hotels[n.val].reserved_rooms + k
                   /\ down.oks = k
                   /\ down.hotels = hotels

\* a room was released at a hotel of two rooms that keeps one reserved
C11_Witness ==
    /\ last = [op |-> "cancel_room", kind |-> "ok"]
    /\ \E n \in DOMAIN hotels :
           hotels[n].reserved_rooms = 1 /\ hotels[n].total_rooms.val = 2

\* C12: modify_hotel(name, new_total_rooms = t) on an existing hotel succeeds
\* exactly when t is a positive int (isinstance(t, int) and t > 0) that is not
\* below the hotel's reserved_rooms, and then stores t as total_rooms and
\* changes nothing else; a positive t below reserved_rooms fails with
\* InvalidInput and the stored total_rooms is unchanged.
C12_ModifyTotalRooms ==
    \A n \in KeyArgs(HotelNames),
       t \in TypedRoomArgs \cup {PyInt(MaxRooms + 1)} :
        In(n, hotels) =>
        LET r == modify_hotel(hotels, n, None, None, t)
            h == hotels[n.val]
        IN  /\ r.err = OK <=>
                   (PositiveInt(t) /\ t.val >= h.reserved_rooms)
            /\ r.err = OK =>
                   r.hotels = [hotels EXCEPT ![n.val].total_rooms = t]
            /\ (PositiveInt(t) /\ t.val < h.reserved_rooms) =>
                   /\ r.err = "Cannot set total rooms below reserved rooms"
                   /\ Kind(r.err) = "InvalidInput"
                   /\ r.hotels = hotels
            /\ r.err # OK => r.hotels = hotels

\* a modification was refused at a hotel with two rooms reserved
C12_Witness ==
    /\ last = [op |-> "modify_hotel", kind |-> "InvalidInput"]
    /\ \E n \in DOMAIN hotels :
           hotels[n].reserved_rooms = 2 /\ hotels[n].total_rooms.val = 2

\* the location and total_rooms arguments that modify_hotel accepts for the
\* record h: none given, or a valid one
AcceptedLocations == {None} \cup {Str(l) : l \in WideLocations}
AcceptedRooms(h) ==
    {None} \cup {PyInt(k) : k \in {x \in 1 .. MaxRooms + 1 :
                                     x >= h.reserved_rooms}}

\* the record h with the location and total_rooms that are given
Changed(h, l, t) ==
    [h EXCEPT !.location = IF l.type = "NoneType" THEN @ ELSE l.val,
              !.total_rooms = IF t.type = "NoneType" THEN @ ELSE t]

\* C13: modify_hotel(name, new_name) on an existing hotel, with a non-empty
\* new_name other than name (and the other arguments absent or valid), fails
\* with AlreadyExists and leaves the hotel store unchanged if new_name is a
\* key; otherwise the old key is gone, the new key holds the record with the
\* same reserved_rooms, the new name and the location and total_rooms given
\* in the call, every other hotel is as it was and the number of hotels is
\* the same.
C13_Rename ==
    \A n \in StrArgs(HotelNames),
       nn \in {Str(x) : x \in HotelNames \cup {"Grand Plaza"}} :
        (In(n, hotels) /\ nn.val # n.val) =>
        \A l \in AcceptedLocations, t \in AcceptedRooms(hotels[n.val]) :
            LET r == modify_hotel(hotels, n, nn, l, t)
            IN  IF In(nn, hotels)
                THEN /\ Kind(r.err) = "AlreadyExists"
                     /\ r.hotels = hotels
                ELSE /\ r.err = OK
                     /\ n.val \notin DOMAIN r.hotels
                     /\ nn.val \in DOMAIN r.hotels
                     /\ r.hotels[nn.val] =
                            [Changed(hotels[n.val], l, t)
                                EXCEPT !.name = nn.val]
                     /\ r.hotels[nn.val].reserved_rooms =
                            hotels[n.val].reserved_rooms
                     /\ \A o \in DOMAIN hotels \ {n.val} :
                            o \in DOMAIN r.hotels /\ r.hotels[o] = hotels[o]
                     /\ Cardinality(DOMAIN r.hotels) =
                            Cardinality(DOMAIN hotels)

\* a rename to the name of the other hotel was refused
C13_Witness ==
    /\ last = [op |-> "modify_hotel", kind |-> "AlreadyExists"]
    /\ Cardinality(DOMAIN hotels) = 2
    /\ \E n \in DOMAIN hotels : hotels[n].reserved_rooms = 1

\* C14: modify_hotel with new_name equal to the current name never fails with
\* AlreadyExists, whatever the other arguments; with the other arguments
\* absent or valid it succeeds, leaves the set of keys as it was and applies
\* the location and total_rooms given in the call.
C14_RenameToSameName ==
    \A n \in StrArgs(HotelNames) :
        In(n, hotels) =>
        /\ \A l \in OptTypedStrArgs(WideLocations), t \in OptTypedRoomArgs :
               Kind(modify_hotel(hotels, n, n, l, t).err) # "AlreadyExists"
        /\ \A l \in AcceptedLocations, t \in AcceptedRooms(hotels[n.val]) :
               LET r == modify_hotel(hotels, n, n, l, t)
               IN  /\ r.err = OK
                   /\ DOMAIN r.hotels = DOMAIN hotels
                   /\ r.hotels =
                          [hotels EXCEPT
                              ![n.val] = Changed(hotels[n.val], l, t)]

\* a hotel was modified in a run that has had no rename, and is at "MTY"
C14_Witness ==
    /\ last = [op |-> "modify_hotel", kind |-> "ok"]
    /\ protocolOnly
    /\ \E n \in DOMAIN hotels : hotels[n].location = "MTY"

\* C15: modify_hotel with an empty new_name on an existing hotel fails,
\* whatever the other arguments, and leaves the hotel store unchanged: no
\* hotel is stored under the empty string.
C15_EmptyNewNameRefused ==
    \A n \in StrArgs(HotelNames) :
        In(n, hotels) =>
        /\ \A l \in OptTypedStrArgs(WideLocations), t \in OptTypedRoomArgs :
               LET r == modify_hotel(hotels, n, Str(""), l, t)
               IN  /\ Kind(r.err) = "InvalidInput"
                   /\ r.hotels = hotels
                   /\ "" \notin DOMAIN r.hotels
        /\ \A l \in AcceptedLocations, t \in AcceptedRooms(hotels[n.val]) :
               modify_hotel(hotels, n, Str(""), l, t).err =
                   "Hotel name must be a non-empty string"

\* a modification was refused at a hotel with no room reserved
C15_Witness ==
    /\ last = [op |-> "modify_hotel", kind |-> "InvalidInput"]
    /\ Cardinality(DOMAIN hotels) = 1
    /\ \A n \in DOMAIN hotels : hotels[n].reserved_rooms = 0

\* C16: create_hotel(name, location, total_rooms) fails with InvalidInput when
\* name or location is empty (or not a string) or total_rooms is not a
\* positive int; with valid arguments it fails with AlreadyExists when name is
\* a key, and the store with the existing record is unchanged; otherwise it
\* inserts a record with reserved_rooms = 0, which display_hotel reports with
\* as many available rooms as total_rooms.
C16_CreateHotelContract ==
    \A n \in TypedStrArgs(HotelNames \cup {"Grand Plaza"}),
       l \in TypedStrArgs(WideLocations), t \in TypedRoomArgs :
        LET r == create_hotel(hotels, n, l, t)
            invalid == ~NonEmptyStr(n) \/ ~NonEmptyStr(l) \/ ~PositiveInt(t)
        IN  IF invalid
            THEN Kind(r.err) = "InvalidInput" /\ r.hotels = hotels
            ELSE IF In(n, hotels)
            THEN Kind(r.err) = "AlreadyExists" /\ r.hotels = hotels
            ELSE /\ r.err = OK
                 /\ r.hotels =
                        Put(hotels, n.val,
                            [name |-> n.val, location |-> l.val,
                             total_rooms |-> t, reserved_rooms |-> 0])
                 /\ display_hotel(r.hotels, n).ret =
                        <<n.val, l.val, t, 0, t.val>>

\* a second hotel of the same name was refused while a room of it is reserved
C16_Witness ==
    /\ last = [op |-> "create_hotel", kind |-> "AlreadyExists"]
    /\ \E n \in DOMAIN hotels : hotels[n].reserved_rooms = 1

\* C17: create_customer(id, name, email) fails with InvalidInput when id, name
\* or email is empty or not a string; with valid arguments it fails with
\* AlreadyExists when id is a key, and the existing record is not
\* overwritten; otherwise it inserts exactly the record of its arguments and
\* leaves every other customer as it was.  On failure the customer store is
\* unchanged.
C17_CreateCustomerContract ==
    \A id \in TypedStrArgs(WideCustomerIds \cup {"C999"}),
       n \in TypedStrArgs(WideCustomerNames),
       e \in TypedStrArgs(WideEmails) :
        LET r == create_customer(customers, id, n, e)
            invalid == ~NonEmptyStr(id) \/ ~NonEmptyStr(n) \/ ~NonEmptyStr(e)
        IN  /\ r.err # OK => r.customers = customers
            /\ IF invalid
               THEN Kind(r.err) = "InvalidInput"
               ELSE IF In(id, customers)
               THEN /\ Kind(r.err) = "AlreadyExists"
                    /\ r.customers[id.val] = customers[id.val]
               ELSE /\ r.err = OK
                    /\ DOMAIN r.customers = DOMAIN customers \cup {id.val}
                    /\ r.customers[id.val] =
                           [customer_id |-> id.val, name |-> n.val,
                            email |-> e.val]
                    /\ \A o \in DOMAIN customers :
                           r.customers[o] = customers[o]

\* a second customer "C001" was refused while "C001" is stored as Bob
C17_Witness ==
    /\ last = [op |-> "create_customer", kind |-> "AlreadyExists"]
    /\ "C001" \in DOMAIN customers
    /\ customers["C001"].name = "Bob"

\* C18: delete_customer, display_customer and modify_customer on an id that
\* is not a key fail with NotFound, whatever the other arguments, and leave
\* the customer store unchanged; delete_customer on an existing id removes
\* exactly that key and leaves every other customer unchanged, and a second
\* delete of the same id fails with NotFound.
C18_CustomerNotFound ==
    \A id \in KeyArgs(WideCustomerIds \cup {"C999"}) :
        IF ~In(id, customers)
        THEN /\ Kind(delete_customer(customers, id).err) = "NotFound"
             /\ delete_customer(customers, id).customers = customers
             /\ Kind(display_customer(customers, id).err) = "NotFound"
             /\ display_customer(customers, id).customers = customers
             /\ \A n \in OptTypedStrArgs(WideCustomerNames),
                   e \in OptTypedStrArgs(WideEmails) :
                    LET r == modify_customer(customers, id, n, e)
                    IN  Kind(r.err) = "NotFound" /\ r.customers = customers
        ELSE LET r1 == delete_customer(customers, id)
                 r2 == delete_customer(r1.customers, id)
             IN  /\ r1.err = OK
                 /\ DOMAIN r1.customers = DOMAIN customers \ {id.val}
                 /\ \A o \in DOMAIN r1.customers :
                        r1.customers[o] = customers[o]
                 /\ Kind(r2.err) = "NotFound"
                 /\ r2.customers = r1.customers

\* a delete was refused while the other customer is stored
C18_Witness ==
    /\ last = [op |-> "delete_customer", kind |-> "NotFound"]
    /\ Cardinality(DOMAIN customers) = 1

FailureKinds ==
    {"InvalidInput", "AlreadyExists", "NotFound", "CapacityExceeded",
     "InvalidState"}

\* C19, the operations: whatever the arguments, a call of a public operation
\* that raises returns its stores as it found them, and what it raises is one
\* of the five kinds of failure.
C19_Operators ==
    /\ \A id \in KeyArgs(CustomerIds) :
           /\ \A r \in {delete_customer(customers, id),
                        [err |-> display_customer(customers, id).err,
                         customers |->
                             display_customer(customers, id).customers]} :
                  r.err # OK =>
                      Kind(r.err) \in FailureKinds /\ r.customers = customers
           /\ \A n \in OptTypedStrArgs(CustomerNames),
                 e \in OptTypedStrArgs(Emails) :
                  \A r \in {create_customer(customers, id, n, e),
                            modify_customer(customers, id, n, e)} :
                      r.err # OK =>
                          /\ Kind(r.err) \in FailureKinds
                          /\ r.customers = customers
    /\ \A n \in KeyArgs(HotelNames) :
           /\ \A r \in {delete_hotel(hotels, n),
                        [err |-> display_hotel(hotels, n).err,
                         hotels |-> display_hotel(hotels, n).hotels],
                        reserve_room(hotels, n),
                        cancel_room(hotels, n)} :
                  r.err # OK =>
                      Kind(r.err) \in FailureKinds /\ r.hotels = hotels
           /\ \A l \in OptStrArgs(Locations), t \in OptRoomArgs :
                  /\ LET r == create_hotel(hotels, n, l, t)
                     IN  r.err # OK =>
                             /\ Kind(r.err) \in FailureKinds
                             /\ r.hotels = hotels
                  /\ \A nn \in OptStrArgs(HotelNames) :
                         LET r == modify_hotel(hotels, n, nn, l, t)
                         IN  r.err # OK =>
                                 /\ Kind(r.err) \in FailureKinds
                                 /\ r.hotels = hotels
    /\ \A c \in KeyArgs(CustomerIds), h \in KeyArgs(HotelNames),
          id \in ReservationIds :
           LET r == create_reservation(customers, hotels, reservations,
                                       c, h, id)
           IN  r.err # OK =>
                   /\ Kind(r.err) \in FailureKinds
                   /\ r.hotels = hotels
                   /\ r.reservations = reservations
    /\ \A id \in KeyArgs(ReservationIds) :
           LET r == cancel_reservation(hotels, reservations, id)
           IN  r.err # OK =>
                   /\ Kind(r.err) \in FailureKinds
                   /\ r.hotels = hotels
                   /\ r.reservations = reservations

\* C19, the step: a call that ends by raising leaves the three stores as they
\* were.
C19_Step ==
    last'.kind # "ok" => UNCHANGED <<customers, hotels, reservations>>

\* C19: any public operation of the three stores that ends by raising a
\* failure (InvalidInput, AlreadyExists, NotFound, CapacityExceeded or
\* InvalidState) leaves the customer, hotel and reservation stores exactly as
\* they were before the call.
C19_FailureLeavesStores == []C19_Operators /\ [][C19_Step]_vars

\* a cancellation was refused at the hotel, the reservation is still stored
C19_Witness ==
    /\ last = [op |-> "cancel_reservation", kind |-> "InvalidState"]
    /\ reservations # EmptyStore

\* C20: loading any of the three stores never fails: a missing file and a
\* file whose content does not parse both yield an empty mapping, with a
\* diagnostic in the second case only, and a create that succeeds on such a
\* store leaves a store that holds exactly the new record.
C20_LoadNeverFails ==
    LET lc == load_customers(customers, damaged.customers)
        lh == load_hotels(hotels, damaged.hotels)
        lr == load_reservations(reservations, damaged.reservations)
    IN  /\ lc.err = OK /\ lh.err = OK /\ lr.err = OK
        /\ lc.warned <=> damaged.customers # "none"
        /\ lh.warned <=> damaged.hotels # "none"
        /\ lr.warned <=> damaged.reservations # "none"
        /\ lc.data = customers /\ lh.data = hotels /\ lr.data = reservations
        /\ damaged.customers # "none" =>
               /\ lc.data = EmptyStore
               /\ \A id \in CustomerIds, n \in CustomerNames, e \in Emails :
                      create_customer(lc.data, Str(id), Str(n), Str(e))
                          = [err |-> OK,
                             customers |-> Put(EmptyStore, id,
                                               CustomerToDict(id, n, e))]
        /\ damaged.hotels # "none" =>
               /\ lh.data = EmptyStore
               /\ \A n \in HotelNames, l \in Locations, t \in 1 .. MaxRooms :
                      create_hotel(lh.data, Str(n), Str(l), PyInt(t))
                          = [err |-> OK,
                             hotels |-> Put(EmptyStore, n,
                                            HotelToDict(n, l, PyInt(t), 0))]
        /\ damaged.reservations # "none" => lr.data = EmptyStore

\* C21: for every Customer, Hotel and Reservation record r,
\* from_dict(to_dict(r)) equals r field for field, and Hotel.from_dict of a
\* mapping without a reserved_rooms key gives a hotel with reserved_rooms = 0
\* and the three fields of the mapping.
C21_RoundTrip ==
    /\ roundtrip.self # NoObject =>
           /\ roundtrip.back = roundtrip.self
           /\ \A k \in DOMAIN roundtrip.data :
                  roundtrip.back[k] = roundtrip.data[k]
    /\ (roundtrip.back.class = "Hotel"
            /\ "reserved_rooms" \notin DOMAIN roundtrip.data) =>
           /\ roundtrip.back.reserved_rooms = 0
           /\ roundtrip.back.name = roundtrip.data.name
           /\ roundtrip.back.location = roundtrip.data.location
           /\ roundtrip.back.total_rooms = roundtrip.data.total_rooms

\* a hotel with two rooms reserved has been serialized and read back
C21_Witness ==
    /\ roundtrip.self # NoObject
    /\ roundtrip.back.class = "Hotel"
    /\ roundtrip.self.reserved_rooms = 2
    /\ roundtrip.data.reserved_rooms = 2

\* both processes have returned from a successful reserve_room or
\* create_reservation at the hotel n, and both had loaded the counter v
BothReserved(n, v) ==
    \A p \in Procs :
        /\ procs[p].pc = "done"
        /\ procs[p].op \in {"reserve_room", "create_reservation"}
        /\ procs[p].ret = OK
        /\ procs[p].name = Str(n)
        /\ procs[p].seen = v

\* C22: two reserve_room or create_reservation calls on the same hotel whose
\* load and save steps interleave, so that both load the same counter, both
\* return success, and the reserved_rooms that is persisted is only one above
\* what they loaded: one update is lost and no failure is reported.
C22_LostUpdate ==
    \A n \in HotelNames, v \in 0 .. MaxRooms :
        BothReserved(n, v) =>
            /\ damaged.hotels = "none"
            /\ n \in DOMAIN hotels
            /\ hotels[n].reserved_rooms = v + 1

\* both calls have succeeded at a hotel of two rooms, none reserved before,
\* and one room is counted
C22_Witness ==
    /\ BothReserved(RacedHotel, 0)
    /\ RacedHotel \in DOMAIN hotels
    /\ hotels[RacedHotel].total_rooms.val = 2
    /\ hotels[RacedHotel].reserved_rooms = 1

\* the process is at one of the steps pcs of its call, or it was stopped
\* before one of them and no call has been made since
AtStep(p, op, pcs) ==
    /\ procs[p].op = op
    /\ \/ procs[p].pc \in pcs
       \/ /\ procs[p].pc = "interrupted"
          /\ procs[p].at \in pcs
          /\ last = [op |-> op, kind |-> "interrupted"]

\* the number of records of rs that name the hotel n
CountAt(rs, n) == Cardinality({id \in DOMAIN rs : rs[id].hotel_name = n})

\* every record of rs cancelled, one cancel_reservation after another; a
\* cancellation that fails leaves its record
RECURSIVE CancelEvery(_, _, _)
CancelEvery(hs, rs, ids) ==
    IF ids = {}
    THEN [hotels |-> hs, reservations |-> rs]
    ELSE LET id == CHOOSE x \in ids : TRUE
             r == cancel_reservation(hs, rs, Str(id))
         IN  CancelEvery(r.hotels, r.reservations, ids \ {id})

\* C23: cancel_reservation writes the decremented counter to the hotel store
\* before it removes the reservation record: up to the save of cancel_room
\* both files are as the call found them and while the hotel file is open
\* for that save the reservation file still is; between the two writes, the
\* process stopped there or not, the reservation record is still present
\* while reserved_rooms of its hotel is one below what the call found, and
\* the hotel file stays so while the reservation file is open for its save.
\* A save stopped before its dump is whole leaves no mapping in its file (no
\* bytes, or the start of the dump); a process stopped after the reservation
\* file is closed leaves the counter decremented and the record removed.
C23_CancelCounterBeforeRecord ==
    \A p \in Procs :
        /\ AtStep(p, "cancel_reservation",
                  {"cancel_room: load", "cancel_room: save"}) =>
               hotels = procs[p].h0 /\ reservations = procs[p].r0
        /\ AtStep(p, "cancel_reservation", {"cancel_room: dump"}) =>
               /\ reservations = procs[p].r0
               /\ procs[p].id.val \in DOMAIN reservations
               /\ damaged.hotels \in {"empty", "text"}
               /\ hotels = EmptyStore
        /\ AtStep(p, "cancel_reservation",
                  {"cancel_reservation: save reservations"}) =>
               LET id == procs[p].id.val
                   h == procs[p].name.val
               IN  /\ reservations = procs[p].r0
                   /\ id \in DOMAIN reservations
                   /\ reservations[id].hotel_name = h
                   /\ h \in DOMAIN procs[p].h0
                   /\ hotels = [procs[p].h0 EXCEPT
                                   ![h].reserved_rooms = @ - 1]
                   /\ hotels[h].reserved_rooms = procs[p].seen - 1
        /\ AtStep(p, "cancel_reservation",
                  {"cancel_reservation: dump reservations"}) =>
               LET h == procs[p].name.val
               IN  /\ h \in DOMAIN procs[p].h0
                   /\ hotels = [procs[p].h0 EXCEPT
                                   ![h].reserved_rooms = @ - 1]
                   /\ damaged.reservations \in {"empty", "text"}
                   /\ reservations = EmptyStore
        /\ AtStep(p, "cancel_reservation", {"cancel_reservation: return"}) =>
               LET h == procs[p].name.val
               IN  /\ hotels = [procs[p].h0 EXCEPT
                                   ![h].reserved_rooms = @ - 1]
                   /\ reservations = Del(procs[p].r0, procs[p].id.val)

\* the process was stopped between the two writes of a cancellation: the
\* record is there, and its hotel, with one room reserved before, counts none
C23_Witness ==
    /\ procs["p1"].pc = "interrupted"
    /\ procs["p1"].op = "cancel_reservation"
    /\ procs["p1"].at = "cancel_reservation: save reservations"
    /\ last = [op |-> "cancel_reservation", kind |-> "interrupted"]
    /\ procs["p1"].id.val \in DOMAIN reservations
    /\ procs["p1"].seen = 1
    /\ hotels[procs["p1"].name.val].reserved_rooms = 0

\* C24: create_reservation writes the incremented counter to the hotel store
\* before it writes the reservation record: up to the save of reserve_room
\* both files are as the call found them and while the hotel file is open
\* for that save the reservation file still is; between the two writes, the
\* process stopped there or not, reserved_rooms of the hotel is one above
\* what the call found while the reservation store has no new record, and
\* the hotel file stays so while the reservation file is open for its save.
\* If the counters agreed with the records when the call began, each record
\* naming a stored hotel and each hotel counting its records, the hold is an
\* orphan: with every stored reservation cancelled, the hotel still counts
\* one reserved room. A save stopped before its dump is whole leaves no
\* mapping in its file (no bytes, or the start of the dump); a process
\* stopped after the reservation file is closed leaves the counter
\* incremented and the record written.
C24_CreateCounterBeforeRecord ==
    \A p \in Procs :
        /\ AtStep(p, "create_reservation",
                  {"create_reservation: load customers",
                   "create_reservation: load hotels",
                   "reserve_room: load", "reserve_room: save"}) =>
               hotels = procs[p].h0 /\ reservations = procs[p].r0
        /\ AtStep(p, "create_reservation", {"reserve_room: dump"}) =>
               /\ reservations = procs[p].r0
               /\ damaged.hotels \in {"empty", "text"}
               /\ hotels = EmptyStore
        /\ AtStep(p, "create_reservation",
                  {"create_reservation: dump reservations"}) =>
               LET h == procs[p].name.val
               IN  /\ h \in DOMAIN procs[p].h0
                   /\ hotels = [procs[p].h0 EXCEPT
                                   ![h].reserved_rooms = @ + 1]
                   /\ damaged.reservations \in {"empty", "text"}
                   /\ reservations = EmptyStore
        /\ AtStep(p, "create_reservation", {"create_reservation: return"}) =>
               LET h == procs[p].name.val
                   id == procs[p].id.val
               IN  /\ hotels = [procs[p].h0 EXCEPT
                                   ![h].reserved_rooms = @ + 1]
                   /\ reservations =
                          Put(procs[p].r0, id,
                              ReservationToDict(id, procs[p].customer_id.val,
                                                h))
        /\ AtStep(p, "create_reservation",
                  {"create_reservation: load reservations",
                   "create_reservation: save reservations"}) =>
               LET h == procs[p].name.val
                   all == CancelEvery(hotels, reservations,
                                      DOMAIN reservations)
               IN  /\ reservations = procs[p].r0
                   /\ h \in DOMAIN procs[p].h0
                   /\ hotels = [procs[p].h0 EXCEPT
                                   ![h].reserved_rooms = @ + 1]
                   /\ hotels[h].reserved_rooms = procs[p].seen + 1
                   /\ (/\ \A n \in DOMAIN procs[p].h0 :
                             procs[p].h0[n].reserved_rooms
                                 = CountAt(procs[p].r0, n)
                       /\ \A id \in DOMAIN procs[p].r0 :
                             procs[p].r0[id].hotel_name
                                 \in DOMAIN procs[p].h0) =>
                          /\ hotels[h].reserved_rooms
                                 = CountAt(reservations, h) + 1
                          /\ all.reservations = EmptyStore
                          /\ all.hotels[h].reserved_rooms = 1

\* the process was stopped between the two writes of its first reservation:
\* one room is counted and no record is stored
C24_Witness ==
    /\ procs["p1"].pc = "interrupted"
    /\ procs["p1"].op = "create_reservation"
    /\ procs["p1"].at = "create_reservation: load reservations"
    /\ last = [op |-> "create_reservation", kind |-> "interrupted"]
    /\ reservations = EmptyStore
    /\ hotels[procs["p1"].name.val].reserved_rooms = 1

\* a total_rooms that modify_hotel refuses for the record h
RefusedRooms(h) ==
    {t \in TypedRoomArgs : ~PositiveInt(t) \/ t.val < h.reserved_rooms}

\* a new name or email that modify_customer or modify_hotel refuses
RefusedStrings == {Str(""), PyInt(123)}

\* C25 as stated: modify_customer with a valid new_name and an invalid
\* new_email, or modify_hotel with a valid new_location and an invalid
\* new_total_rooms or new_name, fails with InvalidInput and leaves the stored
\* record with the new value in the earlier field and the later field
\* unchanged.
C25_Original ==
    /\ \A id \in StrArgs(CustomerIds), n \in WideCustomerNames,
          e \in RefusedStrings :
           In(id, customers) =>
           LET r == modify_customer(customers, id, Str(n), e)
           IN  /\ Kind(r.err) = "InvalidInput"
               /\ r.customers[id.val].name = n
               /\ r.customers[id.val].email = customers[id.val].email
    /\ \A h \in StrArgs(HotelNames), l \in WideLocations :
           In(h, hotels) =>
           /\ \A t \in RefusedRooms(hotels[h.val]) :
                  LET r == modify_hotel(hotels, h, None, Str(l), t)
                  IN  /\ Kind(r.err) = "InvalidInput"
                      /\ r.hotels[h.val].location = l
                      /\ r.hotels[h.val].total_rooms.val
                             = hotels[h.val].total_rooms.val
           /\ \A nn \in RefusedStrings :
                  LET r == modify_hotel(hotels, h, nn, Str(l), None)
                  IN  /\ Kind(r.err) = "InvalidInput"
                      /\ r.hotels[h.val].location = l

\* C25: modify_customer with a valid new_name and an invalid new_email, or
\* modify_hotel with a valid new_location and an invalid new_total_rooms or
\* new_name, fails with InvalidInput and leaves the store as it was: the
\* record keeps the old value in the earlier field too, the new value having
\* been set only in memory.
C25_FailedModifyKeepsRecord ==
    /\ \A id \in StrArgs(CustomerIds), n \in WideCustomerNames,
          e \in RefusedStrings :
           In(id, customers) =>
           LET r == modify_customer(customers, id, Str(n), e)
           IN  /\ Kind(r.err) = "InvalidInput"
               /\ r.customers = customers
               /\ r.customers[id.val].name = customers[id.val].name
    /\ \A h \in StrArgs(HotelNames), l \in WideLocations :
           In(h, hotels) =>
           /\ \A t \in RefusedRooms(hotels[h.val]) :
                  LET r == modify_hotel(hotels, h, None, Str(l), t)
                  IN  /\ Kind(r.err) = "InvalidInput"
                      /\ r.hotels = hotels
                      /\ r.hotels[h.val].location = hotels[h.val].location
           /\ \A nn \in RefusedStrings :
                  LET r == modify_hotel(hotels, h, nn, Str(l), None)
                  IN  /\ Kind(r.err) = "InvalidInput"
                      /\ r.hotels = hotels
                      /\ r.hotels[h.val].location = hotels[h.val].location

\* a modify_customer call was refused for its arguments, the customer "C001"
\* is stored as Alice, and a hotel at "CDMX" has a room reserved
C25_Witness ==
    /\ last = [op |-> "modify_customer", kind |-> "InvalidInput"]
    /\ "C001" \in DOMAIN customers
    /\ customers["C001"].name = "Alice"
    /\ \E n \in DOMAIN hotels :
           hotels[n].location = "CDMX" /\ hotels[n].reserved_rooms = 1

\* C26, the step: a hotel that is stored before and after the step has its
\* reserved_rooms changed by +1 in a successful reserve_room or
\* create_reservation, by -1 in a successful cancel_room or
\* cancel_reservation, and by no other call; a rename carries the value to
\* the new key.
C26_Step ==
    /\ \A n \in DOMAIN hotels \cap DOMAIN hotels' :
           LET d == hotels'[n].reserved_rooms - hotels[n].reserved_rooms
           IN  d # 0 =>
                   /\ last'.kind = "ok"
                   /\ \/ d = 1 /\ last'.op \in {"reserve_room",
                                                "create_reservation"}
                      \/ d = -1 /\ last'.op \in {"cancel_room",
                                                 "cancel_reservation"}
    /\ (last'.op = "modify_hotel" /\ DOMAIN hotels' # DOMAIN hotels) =>
           \E n \in DOMAIN hotels \ DOMAIN hotels',
              nn \in DOMAIN hotels' \ DOMAIN hotels :
               /\ DOMAIN hotels' = (DOMAIN hotels \ {n}) \cup {nn}
               /\ hotels'[nn].reserved_rooms = hotels[n].reserved_rooms

\* C26: for every hotel that exists both before and after a step,
\* reserved_rooms changes only in a reserve_room step (+1) or a cancel_room
\* step (-1), called directly or through create_reservation or
\* cancel_reservation; create_hotel on an existing name, modify_hotel,
\* delete_hotel of another hotel and the customer operations leave it
\* unchanged, and a rename carries the value to the new key.
C26_ReservedRoomsFrame == [][C26_Step]_vars

\* a hotel with both rooms reserved was modified
C26_Witness ==
    /\ last = [op |-> "modify_hotel", kind |-> "ok"]
    /\ \E n \in DOMAIN hotels : hotels[n].reserved_rooms = 2

\* cancel_reservation of id fails with "Hotel not found" and leaves the hotels
\* hs and the reservations rs as they are
CancelFindsNoHotel(hs, rs, id) ==
    LET c == cancel_reservation(hs, rs, Str(id))
    IN  /\ c.err = "Hotel not found"
        /\ Kind(c.err) = "NotFound"
        /\ c.hotels = hs
        /\ c.reservations = rs

C27_State ==
    /\ \A n \in DOMAIN hotels, nn \in HotelNames \ DOMAIN hotels :
           LET m == modify_hotel(hotels, Str(n), Str(nn), None, None)
           IN  /\ m.err = OK
               /\ n \notin DOMAIN m.hotels
               /\ m.hotels[nn].reserved_rooms = hotels[n].reserved_rooms
               /\ \A id \in ReservationsAt(reservations, n) :
                      CancelFindsNoHotel(m.hotels, reservations, id)
    /\ \A id \in DOMAIN reservations :
           reservations[id].hotel_name \notin DOMAIN hotels =>
               CancelFindsNoHotel(hotels, reservations, id)

C27_Step == last'.op = "modify_hotel" => reservations' = reservations

\* C27: renaming a hotel with modify_hotel changes no reservation record, so
\* the reservations made before the rename keep the old hotel_name; while no
\* hotel has the old name, cancel_reservation on them fails with NotFound
\* and changes neither the reservation record nor the reserved_rooms of the
\* renamed hotel.
C27_RenameOrphansReservations == []C27_State /\ [][C27_Step]_vars

\* a cancel_reservation has failed on a reservation whose hotel was renamed:
\* the record names no stored hotel and the stored hotel holds the room
C27_Witness ==
    /\ last = [op |-> "cancel_reservation", kind |-> "NotFound"]
    /\ protocolOnly = FALSE
    /\ \E id \in DOMAIN reservations, nn \in DOMAIN hotels :
           /\ reservations[id].hotel_name \notin DOMAIN hotels
           /\ hotels[nn].reserved_rooms = 1
           /\ DOMAIN hotels = {nn}

C28_State ==
    \A n \in DOMAIN hotels :
        LET d == delete_hotel(hotels, Str(n))
        IN  /\ d.err = OK
            /\ DOMAIN d.hotels = DOMAIN hotels \ {n}
            /\ \A o \in DOMAIN d.hotels : d.hotels[o] = hotels[o]
            /\ \A id \in ReservationsAt(reservations, n) :
                   CancelFindsNoHotel(d.hotels, reservations, id)

C28_Step ==
    last'.op = "delete_hotel" =>
        /\ reservations' = reservations
        /\ customers' = customers

\* C28: delete_hotel succeeds for any existing hotel whatever its
\* reserved_rooms and leaves the reservation store unchanged; afterwards,
\* while no hotel has that name, cancel_reservation on a reservation that
\* names the deleted hotel fails with NotFound and the record remains.
C28_DeleteHotelOrphansReservations == []C28_State /\ [][C28_Step]_vars

\* a hotel was deleted while a reservation named it
C28_Witness ==
    /\ last = [op |-> "delete_hotel", kind |-> "ok"]
    /\ hotels = EmptyStore
    /\ reservations # EmptyStore

\* the reservations of store rs whose customer_id is c
ReservationsOf(rs, c) == {id \in DOMAIN rs : rs[id].customer_id = c}

\* C29 as stated: an existing customer can be deleted, and each reservation
\* that references it can be cancelled afterwards, which takes one from the
\* counter of its hotel.
C29_Original ==
    \A c \in DOMAIN customers :
        LET d == delete_customer(customers, Str(c))
        IN  /\ d.err = OK
            /\ \A id \in ReservationsOf(reservations, c) :
                   LET r == cancel_reservation(hotels, reservations, Str(id))
                       h == reservations[id].hotel_name
                   IN  /\ r.err = OK
                       /\ h \in DOMAIN hotels
                       /\ r.hotels[h].reserved_rooms =
                              hotels[h].reserved_rooms - 1

C29_State ==
    \A c \in DOMAIN customers :
        LET d == delete_customer(customers, Str(c))
        IN  /\ d.err = OK
            /\ DOMAIN d.customers = DOMAIN customers \ {c}
            /\ \A id \in ReservationsOf(reservations, c) :
                   LET r == cancel_reservation(hotels, reservations, Str(id))
                       h == reservations[id].hotel_name
                   IN  IF h \in DOMAIN hotels
                       THEN IF hotels[h].reserved_rooms > 0
                            THEN /\ r.err = OK
                                 /\ r.hotels[h].reserved_rooms =
                                        hotels[h].reserved_rooms - 1
                                 /\ DOMAIN r.reservations =
                                        DOMAIN reservations \ {id}
                            ELSE /\ Kind(r.err) = "InvalidState"
                                 /\ r.hotels = hotels
                                 /\ r.reservations = reservations
                       ELSE /\ Kind(r.err) = "NotFound"
                            /\ r.hotels = hotels
                            /\ r.reservations = reservations

C29_Step ==
    last'.op = "delete_customer" =>
        /\ reservations' = reservations
        /\ hotels' = hotels

\* C29 amended: delete_customer succeeds for any existing customer even when
\* live reservations reference it and leaves the reservation store and every
\* hotel unchanged; afterwards cancel_reservation on each of those
\* reservations succeeds, removing the record and taking one from the
\* counter of its hotel, when the hotel is stored with a room reserved, and
\* otherwise fails with NotFound (no such hotel) or InvalidState (no room
\* reserved) and changes nothing.
C29_DeleteCustomerKeepsReservations == []C29_State /\ [][C29_Step]_vars

\* a reservation was cancelled while the customer of the reservations was
\* deleted, and another reservation of that customer is still stored
C29_Witness ==
    /\ last = [op |-> "cancel_reservation", kind |-> "ok"]
    /\ customers = EmptyStore
    /\ \E id \in DOMAIN reservations :
           /\ reservations[id].hotel_name \in DOMAIN hotels
           /\ hotels[reservations[id].hotel_name].reserved_rooms = 1

LiveReservationsHoldRooms ==
    \A id \in DOMAIN reservations :
        LET h == reservations[id].hotel_name
        IN  h \in DOMAIN hotels =>
                /\ hotels[h].reserved_rooms > 0
                /\ Kind(cancel_reservation(hotels, reservations,
                                           Str(id)).err) # "InvalidState"

\* C30 as stated: in every reachable state, a reservation record that names
\* a stored hotel finds reserved_rooms > 0 there, so that cancel_reservation
\* on it never fails with InvalidState.
C30_Original == LiveReservationsHoldRooms

\* C30 amended: as long as the run has had no successful direct cancel_room,
\* no successful delete_hotel and no rename, a reservation record that names
\* a stored hotel finds reserved_rooms > 0 there, and cancel_reservation on it
\* does not fail with InvalidState; a direct reserve_room and a reservation
\* written under an id that was already a key leave it so.
C30_NoInvalidStateWhileHoldsKept == holdsKept => LiveReservationsHoldRooms

\* a room was reserved directly and a reservation made in the same hotel:
\* no counter was lowered, the one live reservation finds two rooms counted
C30_Witness ==
    /\ holdsKept
    /\ ~protocolOnly
    /\ last = [op |-> "create_reservation", kind |-> "ok"]
    /\ \E n \in DOMAIN hotels :
           /\ Cardinality(ReservationsAt(reservations, n)) = 1
           /\ hotels[n].reserved_rooms = 2

\* C31: in every state reached with create_customer, create_hotel,
\* create_reservation and cancel_reservation alone, each run to its end and
\* with ids that are never those of stored reservations, reserved_rooms of
\* each hotel is the number of reservation records that name it, and
\* cancelling every stored reservation, in whatever order, empties the
\* reservation store and leaves every counter at 0.
C31_ProtocolCountersMatch ==
    /\ \A n \in DOMAIN hotels :
           hotels[n].reserved_rooms = CountAt(reservations, n)
    /\ \A id \in DOMAIN reservations :
           reservations[id].hotel_name \in DOMAIN hotels
    /\ LET all == CancelEvery(hotels, reservations, DOMAIN reservations)
       IN  /\ all.reservations = EmptyStore
           /\ DOMAIN all.hotels = DOMAIN hotels
           /\ \A n \in DOMAIN hotels : all.hotels[n].reserved_rooms = 0
    /\ \A id \in DOMAIN reservations :
           LET r == cancel_reservation(hotels, reservations, Str(id))
               all == CancelEvery(r.hotels, r.reservations,
                                  DOMAIN r.reservations)
           IN  /\ r.err = OK
               /\ all.reservations = EmptyStore
               /\ \A n \in DOMAIN hotels : all.hotels[n].reserved_rooms = 0

\* one reservation of two was cancelled and the other is live in a hotel
\* next to a hotel without reservations
C31_Witness ==
    /\ last = [op |-> "cancel_reservation", kind |-> "ok"]
    /\ Cardinality(DOMAIN reservations) = 1
    /\ DOMAIN hotels = HotelNames
    /\ \E n \in DOMAIN hotels : hotels[n].reserved_rooms = 1

\* C32: in every reachable state every customer record has a non-empty id,
\* name and email and its customer_id is its key in the store; whatever its
\* arguments, modify_customer leaves the set of keys and the customer_id of
\* every record as they are.
C32_CustomerRecordsWellFormed ==
    /\ \A k \in DOMAIN customers :
           /\ k # ""
           /\ customers[k].customer_id = k
           /\ customers[k].name # ""
           /\ customers[k].email # ""
    /\ \A id \in KeyArgs(WideCustomerIds),
          n \in OptTypedStrArgs(WideCustomerNames),
          e \in OptTypedStrArgs(WideEmails) :
           LET m == modify_customer(customers, id, n, e)
           IN  /\ DOMAIN m.customers = DOMAIN customers
               /\ \A k \in DOMAIN customers :
                      m.customers[k].customer_id = customers[k].customer_id

\* two customers are stored and one of them was given the name and the email
\* of the other by modify_customer
C32_Witness ==
    /\ last = [op |-> "modify_customer", kind |-> "ok"]
    /\ DOMAIN customers = WideCustomerIds
    /\ \A k \in DOMAIN customers :
           customers[k].name = "Bob" /\ customers[k].email = "bob@mail.com"

\* the records of the hotel store hs are well formed
HotelRecordsWellFormed(hs) ==
    \A k \in DOMAIN hs :
        /\ k # ""
        /\ hs[k].name = k
        /\ hs[k].location # ""
        /\ hs[k].total_rooms.type \in {"int", "bool"}
        /\ hs[k].total_rooms.val \in Nat
        /\ hs[k].total_rooms.val > 0

\* C33: in every reachable state, after any number of renames too, the name
\* of every hotel record is its key in the store, its name and location are
\* non-empty and its total_rooms is a positive integer (an instance of int
\* above 0, which the bool True is); a rename of a stored hotel, and the
\* rename back, give stores of such records.
C33_HotelRecordsWellFormed ==
    /\ HotelRecordsWellFormed(hotels)
    /\ \A n \in DOMAIN hotels, nn \in HotelNames \ DOMAIN hotels,
          l \in OptTypedStrArgs(WideLocations), t \in OptTypedRoomArgs :
           LET m == modify_hotel(hotels, Str(n), Str(nn), l, t)
               b == modify_hotel(m.hotels, Str(nn), Str(n), None, None)
           IN  /\ HotelRecordsWellFormed(m.hotels)
               /\ m.err = OK =>
                      /\ nn \in DOMAIN m.hotels
                      /\ n \notin DOMAIN m.hotels
                      /\ b.err = OK
                      /\ HotelRecordsWellFormed(b.hotels)
                      /\ b.hotels[n].name = n

\* a hotel with a room reserved was renamed: the one stored hotel has the
\* second name and the second location, and modify_hotel was the last call
C33_Witness ==
    /\ last = [op |-> "modify_hotel", kind |-> "ok"]
    /\ protocolOnly = FALSE
    /\ DOMAIN hotels = {"Tiny"}
    /\ hotels["Tiny"].reserved_rooms = 1
    /\ hotels["Tiny"].location # "CDMX"

\* the hotel store hs2 is the hotel store hs but for reserved_rooms of the
\* hotel n, when n is a stored hotel
OnlyCounterOf(hs, hs2, n) ==
    /\ DOMAIN hs2 = DOMAIN hs
    /\ \A k \in DOMAIN hs :
           IF k = n
           THEN hs2[k] = [hs[k] EXCEPT !.reserved_rooms =
                                          hs2[k].reserved_rooms]
           ELSE hs2[k] = hs[k]

CustomerOps ==
    {"create_customer", "delete_customer", "display_customer",
     "modify_customer"}

HotelOps ==
    {"create_hotel", "delete_hotel", "display_hotel", "modify_hotel",
     "reserve_room", "cancel_room"}

ReservationOps == {"create_reservation", "cancel_reservation"}

C34_Operators ==
    /\ \A c \in StrArgs(CustomerIds), h \in StrArgs(HotelNames),
          id \in ReservationIds :
           OnlyCounterOf(hotels,
                         create_reservation(customers, hotels, reservations,
                                            c, h, id).hotels,
                         h.val)
    /\ \A id \in KeyArgs(ReservationIds) :
           LET r == cancel_reservation(hotels, reservations, id)
           IN  IF In(id, reservations)
               THEN OnlyCounterOf(hotels, r.hotels,
                                  reservations[id.val].hotel_name)
               ELSE r.hotels = hotels
    /\ \A n \in KeyArgs(HotelNames) :
           display_hotel(hotels, n).hotels = hotels
    /\ \A id \in KeyArgs(CustomerIds) :
           display_customer(customers, id).customers = customers

C34_Step ==
    /\ last'.op \in CustomerOps =>
           hotels' = hotels /\ reservations' = reservations
    /\ last'.op \in HotelOps =>
           customers' = customers /\ reservations' = reservations
    /\ last'.op \in ReservationOps =>
           /\ customers' = customers
           /\ \E n \in HotelNames : OnlyCounterOf(hotels, hotels', n)
    /\ last'.op \in {"display_customer", "display_hotel"} =>
           UNCHANGED <<customers, hotels, reservations>>

\* C34: the customer operations never change the hotel or the reservation
\* store; the hotel operations never change the customer or the reservation
\* store; the reservation operations never change the customer store and
\* change the hotel store only in reserved_rooms of the one hotel they name;
\* the display operations change no store.
C34_StoresFrame == []C34_Operators /\ [][C34_Step]_vars

\* a reservation was made in one of two stored hotels, the other hotel has no
\* room reserved
C34_Witness ==
    /\ last = [op |-> "create_reservation", kind |-> "ok"]
    /\ DOMAIN hotels = HotelNames
    /\ \E n, o \in DOMAIN hotels :
           /\ hotels[n].reserved_rooms = 2
           /\ hotels[o].reserved_rooms = 0
    /\ customers # EmptyStore

\* C35: a create_reservation that succeeds leaves every reservation record
\* that was stored as it was and makes the stored records one more, whatever
\* id uuid4 returns, an id that is already a key of the store included.
C35_CreateReservationAddsOne ==
    \A c \in StrArgs(CustomerIds), h \in StrArgs(HotelNames),
       id \in ReservationIds :
        LET r == create_reservation(customers, hotels, reservations, c, h, id)
        IN  r.err = OK =>
                /\ \A k \in DOMAIN reservations :
                       /\ k \in DOMAIN r.reservations
                       /\ r.reservations[k] = reservations[k]
                /\ Cardinality(DOMAIN r.reservations)
                       = Cardinality(DOMAIN reservations) + 1

\* the records of the hotel mapping hs have 0 <= reserved_rooms <= total_rooms
WithinCapacity(hs) ==
    \A n \in DOMAIN hs :
        /\ 0 <= hs[n].reserved_rooms
        /\ hs[n].reserved_rooms <= hs[n].total_rooms.val

\* C36: when the load and save steps of create_hotel, modify_hotel (renames
\* among its calls), reserve_room, cancel_room and delete_hotel calls of two
\* processes interleave in any order, every hotel record that a load of the
\* hotel file returns has 0 <= reserved_rooms <= total_rooms at every moment,
\* and so has every record of a mapping that a process is about to save or is
\* saving.
C36_InterleavedWithinCapacity ==
    /\ WithinCapacity(load_hotels(hotels, damaged.hotels).data)
    /\ damaged.hotels # "none" => hotels = EmptyStore
    /\ \A p \in Procs :
           procs[p].pc \in HotelSaves \cup HotelDumps =>
               WithinCapacity(procs[p].hs)

\* two calls are under way at once: one process is about to save the second
\* room of the hotel as reserved, the other is about to save the hotel under
\* its second name with total_rooms 1, which it has tested against the one
\* room it loaded
C36_Witness ==
    /\ procs["p1"].pc = "reserve_room: save"
    /\ procs["p2"].pc = "modify_hotel: save"
    /\ RacedHotel \in DOMAIN procs["p1"].hs
    /\ procs["p1"].hs[RacedHotel].reserved_rooms = 2
    /\ DOMAIN procs["p2"].hs = HotelNames \ {RacedHotel}
    /\ \A n \in DOMAIN procs["p2"].hs :
           /\ procs["p2"].hs[n].total_rooms.val = 1
           /\ procs["p2"].hs[n].reserved_rooms = 1

====
